---- MODULE Spec2Model ----
(***************************************************************************)
(* A model of examples/nist_sre/helpers.py: the module start-up, the        *)
(* validation of the scoring, noise and training file lists, the utterance *)
(* quality filter and the train/validation split of prepare_dnn_data.      *)
(***************************************************************************)
EXTENDS Integers, Sequences, FiniteSets, TLC

VARIABLES
  \* ---- validating_training_data and its caller ----
  sre_file_list,      \* the manifest: corpus name -> sequence of rows
  in_path_raw,        \* corpus name -> raw-data root
  training_dataset,   \* the requested training corpora
  disk,               \* the paths for which os.path.exists is true
  v_pc,               \* position of the validation run
  v_out,              \* what validating_training_data produced
  \* ---- the feature store ----
  X,                  \* the feature matrix: one row of NFeat values per frame
  \* ---- filter_utterances ----
  indices,            \* the index given to the call, in iteration order
  f_pc,               \* position of the call
  f_call,             \* 1 in the first call, 2 when the result is filtered again
  f_jobs,             \* the sorted job list handed to the worker pool
  f_done,             \* positions of f_jobs whose result was consumed
  zero_len_files,     \* the five dictionaries of flagged names
  min_frame_files,
  zero_var_files,
  small_var_files,
  overflow_files,
  new_indices,        \* the index the call returns
  f_first,            \* the index the first call returned
  \* ---- prepare_dnn_data ----
  ds_indices,         \* ds['indices_<feature>'], in iteration order
  ds_spkid,           \* ds['spkid']: utterance name -> speaker id
  ds_dsname,          \* ds['dsname']: utterance name -> corpus name
  args,               \* the parsed arguments: exclude, downsample
  seed,               \* Config.SUPER_SEED
  rand,               \* the state of the RandomState
  d_pc,               \* position of the run
  d_run,              \* 1 in the first run, 2 in the second
  d_indices,          \* the local index, in iteration order
  all_name,           \* the surviving names, sorted then shuffled twice
  all_speakers,       \* the sorted surviving speakers
  name2label,         \* name -> dense speaker label
  valid_name,         \* the names drawn for validation, as drawn
  train_name,         \* the names left for training
  train_indices,      \* the two indices of the split
  valid_indices,
  d_first,            \* the split the first run produced
  \* ---- module start-up ----
  ncpu_arg,           \* _args.ncpu
  cpu_count,          \* mpi.cpu_count()
  NCPU,               \* the worker count
  script_name,        \* _script_name
  which,              \* the tools shutil.which finds
  FEATURE_RECIPE,     \* the recipe argument
  CURRENT_STATE,      \* a SystemStates value
  s_pc,               \* position of the start-up
  s_error,            \* the exception that ended the start-up
  score_arg,          \* the -score argument, split
  backend_arg,        \* the -backend argument, split
  SCORING_DATASETS,   \* dataset name -> validated rows
  BACKEND_DATASETS,
  ALL_NOISE,          \* noise corpus -> validated rows
  noise_progress,     \* the counters of validating_noise_data
  recipes             \* what prepare_dnn_feeder_recipe produced

v_vars == <<sre_file_list, in_path_raw, training_dataset, disk, v_pc, v_out>>

flag_vars == <<zero_len_files, min_frame_files, zero_var_files,
               small_var_files, overflow_files>>

f_vars == <<indices, f_pc, f_call, f_jobs, f_done, flag_vars, new_indices,
            f_first>>

ds_vars == <<ds_spkid, ds_dsname, args, seed>>

d_locals == <<d_indices, all_name, all_speakers, name2label, valid_name,
              train_name, train_indices, valid_indices>>

d_vars == <<ds_indices, ds_vars, rand, d_pc, d_run, d_locals, d_first>>

s_vars == <<ncpu_arg, cpu_count, NCPU, script_name, which, FEATURE_RECIPE,
            CURRENT_STATE, s_pc, s_error, score_arg, backend_arg,
            SCORING_DATASETS, BACKEND_DATASETS, ALL_NOISE, noise_progress,
            recipes>>

vars == <<v_vars, X, f_vars, d_vars, s_vars>>

\* ------------------------------------------------------------------------
\* Generic helpers
\* ------------------------------------------------------------------------

\* The elements of a sequence, as a set.
Range(s) == {s[i] : i \in DOMAIN s}

\* Concatenation of the sequences ss[1] \o ... \o ss[n], by halves.
RECURSIVE Flatten(_)
Flatten(ss) ==
  IF ss = <<>> THEN <<>>
  ELSE IF Len(ss) = 1 THEN ss[1]
  ELSE LET h == Len(ss) \div 2
       IN  Flatten(SubSeq(ss, 1, h)) \o Flatten(SubSeq(ss, h + 1, Len(ss)))

\* ------------------------------------------------------------------------
\* validating_training_data
\* ------------------------------------------------------------------------

\* Bound of the model: the total number of manifest rows.
MaxRows == 3

\* The corpora the model's manifests hold, and their raw-data roots.
ManifestCorpora == {"mx6", "swb"}
UtteranceIds == {"u1", "u2", "u3"}
SpeakerIds == {"s1", "s2"}

\* Corpus names in ascending string order, as sorted() orders them.
CorpusOrder == <<"fisher", "musan", "mx6", "rirs", "swb">>

\* sorted(file_list.items(), key=lambda x: x[0]) restricted to its keys.
SortedCorpora(keys) == SelectSeq(CorpusOrder, LAMBDA c : c \in keys)

\* os.path.join(in_path_raw[ds_name], path): a path is its directory, the
\* file's stem and the file's extension.
PathJoin(root, path) == [dir |-> root, stem |-> path.stem, ext |-> path.ext]

\* The path the validator tests for one row: joined with the corpus root only
\* when the corpus has one.
RowPath(raw, ds_name, row) ==
  IF ds_name \in DOMAIN raw THEN PathJoin(raw[ds_name], row.path) ELSE row.path

\* A variant of new_row that keeps the speaker id of the manifest.
NewRowBareSpeaker(raw, ds_name, row) ==
  [path       |-> RowPath(raw, ds_name, row),
   channel    |-> row.channel,
   name       |-> row.name,
   spkid      |-> row.spkid,
   dataset    |-> ds_name,
   start_time |-> IF ds_name = "mx6" THEN row.start_time ELSE "-",
   end_time   |-> IF ds_name = "mx6" THEN row.end_time ELSE "-"]

\* new_row of the loop body, for one manifest row.
NewRow(raw, ds_name, row) ==
  [path       |-> RowPath(raw, ds_name, row),
   channel    |-> row.channel,
   name       |-> row.name,
   spkid      |-> ds_name \o "_" \o row.spkid,
   dataset    |-> ds_name,
   start_time |-> IF ds_name = "mx6" THEN row.start_time ELSE "-",
   end_time   |-> IF ds_name = "mx6" THEN row.end_time ELSE "-"]

\* file_list: the requested corpora the manifest knows.
FileList(flist, tds) ==
  [ds \in (Range(tds) \cap DOMAIN flist) |-> flist[ds]]

\* The corpora the main loop iterates, in its order (noise corpora skipped).
ScannedCorpora(file_list) ==
  SortedCorpora(DOMAIN file_list \ {"musan", "rirs"})

\* Every new_row the loop builds, in the order it builds them.
ScannedRows(file_list, raw) ==
  Flatten([k \in DOMAIN ScannedCorpora(file_list) |->
            LET ds_name == ScannedCorpora(file_list)[k]
            IN  [i \in DOMAIN file_list[ds_name] |->
                   NewRow(raw, ds_name, file_list[ds_name][i])]])

\* extension_count[ext + '-' + ds_name], as a function on the keys counted.
ExtensionCount(rows) ==
  LET keys == {r.path.ext \o "-" \o r.dataset : r \in Range(rows)}
  IN  [k \in keys |->
         Cardinality({i \in DOMAIN rows :
                        rows[i].path.ext \o "-" \o rows[i].dataset = k})]

\* n_spk: the per-corpus unique speaker ids of the manifest, summed.
RECURSIVE SumUniqueSpeakers(_, _)
SumUniqueSpeakers(file_list, keys) ==
  IF keys = {} THEN 0
  ELSE LET ds == CHOOSE k \in keys : TRUE
       IN  Cardinality({file_list[ds][i].spkid : i \in DOMAIN file_list[ds]})
           + SumUniqueSpeakers(file_list, keys \ {ds})

NSpk(file_list) ==
  SumUniqueSpeakers(file_list, DOMAIN file_list \ {"musan", "rirs"})

\* assert n_spk == n_unique_spk
SpeakerCheck(file_list, all_files) ==
  NSpk(file_list) = Cardinality({r.spkid : r \in Range(all_files)})

\* A variant of the name check that compares the names corpus by corpus only.
NameCheckPerCorpus(all_files) ==
  Len(all_files) = Cardinality({<<r.dataset, r.name>> : r \in Range(all_files)})

\* assert n_files == n_unique_files
NameCheck(all_files) ==
  Len(all_files) = Cardinality({r.name : r \in Range(all_files)})

\* A variant without the early return of an empty result.
ValidatingWithoutEarlyReturn(flist, raw, tds, dsk) ==
  LET file_list == FileList(flist, tds)
      rows      == ScannedRows(file_list, raw)
      all_files == SelectSeq(rows, LAMBDA r : r.path \in dsk)
      non_exist == SelectSeq(rows, LAMBDA r : r.path \notin dsk)
      ret       == [all_files |-> all_files, non_exist_files |-> non_exist,
                    extension_count |-> ExtensionCount(rows)]
  IN  IF \E r \in Range(rows) : r.channel \notin {"0", "1"}
        THEN [outcome |-> "assert_channel"]
      ELSE IF ~NameCheck(all_files)
        THEN [outcome |-> "assert_duplicated_name"]
      ELSE IF ~SpeakerCheck(file_list, all_files)
        THEN [outcome |-> "assert_duplicated_speakers"]
      ELSE [outcome |-> "return"] @@ ret

\* The whole function: its outcome and, when it returns, the returned triple.
validating_training_data(flist, raw, tds, dsk) ==
  LET file_list == FileList(flist, tds)
      rows      == ScannedRows(file_list, raw)
      all_files == SelectSeq(rows, LAMBDA r : r.path \in dsk)
      non_exist == SelectSeq(rows, LAMBDA r : r.path \notin dsk)
      ret       == [all_files |-> all_files, non_exist_files |-> non_exist,
                    extension_count |-> ExtensionCount(rows)]
  IN  IF \E r \in Range(rows) : r.channel \notin {"0", "1"}
        THEN [outcome |-> "assert_channel"]
      ELSE IF Len(all_files) = 0
        THEN [outcome |-> "return"] @@ ret
      ELSE IF ~NameCheck(all_files)
        THEN [outcome |-> "assert_duplicated_name"]
      ELSE IF ~SpeakerCheck(file_list, all_files)
        THEN [outcome |-> "assert_duplicated_speakers"]
      ELSE [outcome |-> "return"] @@ ret

\* ------------------------------------------------------------------------
\* filter_utterances
\* ------------------------------------------------------------------------

\* Config.MINIMUM_UTT_DURATION and Config.STEP_LENGTH, in milliseconds.
MINIMUM_UTT_DURATION == 1000
STEP_LENGTH == 10

minimum_amount_of_frames == MINIMUM_UTT_DURATION \div STEP_LENGTH

\* Feature values are integers in units of 0.1. The float type of the matrix
\* has the largest finite value FloatMax; a larger stored value is +inf.
NFeat == 2
FloatMax == 100000

IsInf(v) == v > FloatMax

\* X[start:end]
Slice(x, start, end) == SubSeq(x, start + 1, end)

\* The sum of a sequence of integers, by halves.
RECURSIVE SeqSum(_)
SeqSum(s) ==
  IF s = <<>> THEN 0
  ELSE IF Len(s) = 1 THEN s[1]
  ELSE LET h == Len(s) \div 2
       IN  SeqSum(SubSeq(s, 1, h)) + SeqSum(SubSeq(s, h + 1, Len(s)))

\* For one frame: D * (v[i] - mean), and the sum of their squares, which is
\* D^3 times the variance np.var(y, axis=-1) gives for the frame.
Dev(frame, i) == Len(frame) * frame[i] - SeqSum(frame)
SumSqDev(frame) == SeqSum([i \in DOMAIN frame |-> Dev(frame, i) * Dev(frame, i)])

\* The variance of a frame depends on the frame alone, so the rules below
\* look at the distinct frames of y.

\* The RuntimeWarning np.var(y, axis=-1) raises under catch_warnings_error,
\* in the order numpy computes: the sums, the deviations, their squares, the
\* sums of the squares.
VarWarning(y) ==
  LET frames == Range(y)
      finite == {f \in frames : \A i \in DOMAIN f : ~IsInf(f[i])}
      D2Max(f) == Len(f) * Len(f) * FloatMax
  IN  IF \E f \in finite : SeqSum(f) > FloatMax
        THEN "overflow encountered"
      ELSE IF finite # frames
        THEN "invalid value encountered"
      ELSE IF \E f \in finite : \E i \in DOMAIN f :
                Dev(f, i) * Dev(f, i) > D2Max(f)
        THEN "overflow encountered"
      ELSE IF \E f \in finite : SumSqDev(f) > D2Max(f)
        THEN "overflow encountered"
      ELSE "none"

\* np.any(np.isclose(var, 0))
AnyZeroVar(y) == \E f \in Range(y) : SumSqDev(f) = 0

\* np.sum(var < 0.01): var < 0.01 is SumSqDev < D^3 in units of 0.1.
CountSmallVar(y) ==
  LET small == {f \in Range(y) : SumSqDev(f) < Len(f) * Len(f) * Len(f)}
  IN  Cardinality({t \in DOMAIN y : y[t] \in small})

\* The values of one feature dimension over the frames of y.
Column(y, d) == [t \in DOMAIN y |-> y[t][d]]

\* The number of feature dimensions whose variance over the time axis is
\* below 0.01.
LowVarDims(y) ==
  Cardinality({d \in 1..NFeat :
                 LET col == Column(y, d) \o <<>>
                     sum == SeqSum(col)
                 IN  SeqSum([t \in DOMAIN col |->
                               (Len(col) * col[t] - sum) * (Len(col) * col[t] - sum)])
                       < Len(col) * Len(col) * Len(col)})

\* A variant of the small-variance rule that counts feature dimensions of low
\* variance over time against the number of dimensions.
SmallVarRuleByDimensions(y) == 6 * LowVarDims(y) > NFeat

\* np.sum(var < 0.01) > (len(y) / 6)
SmallVarRule(y) == 6 * CountSmallVar(y) > Len(y)

\* A variant of the minimum-frames rule that lets the boundary length pass.
MinFramesRuleBelow(y) == Len(y) < minimum_amount_of_frames

\* A variant of the minimum-frames rule that asks for one more frame.
MinFramesRuleStricter(y) == Len(y) <= minimum_amount_of_frames + 1

\* y.shape[0] <= minimum_amount_of_frames, for a non-empty y
MinFramesRule(y) == Len(y) <= minimum_amount_of_frames

\* The flags _mpi_func yields for one job.
_mpi_func(x, job) ==
  LET y == Slice(x, job.start, job.end)
      none == [name |-> job.name, is_zero_len |-> FALSE, is_min_frames |-> FALSE,
               is_zero_var |-> FALSE, is_small_var |-> FALSE,
               is_overflow |-> FALSE]
      warning == VarWarning(y)
  IN  IF Len(y) = 0 THEN [none EXCEPT !.is_zero_len = TRUE]
      ELSE IF MinFramesRule(y) THEN [none EXCEPT !.is_min_frames = TRUE]
      ELSE IF warning # "none"
        THEN [none EXCEPT !.is_overflow = (warning = "overflow encountered")]
      ELSE [none EXCEPT !.is_zero_var = AnyZeroVar(y),
                        !.is_small_var = SmallVarRule(y)]

\* A variant of the job list that keeps one job for each start row.
SortByStartOnePerRow(s) ==
  LET firsts == SelectSeq([i \in DOMAIN s |-> i],
                          LAMBDA i : \A j \in 1..(i - 1) : s[j].start # s[i].start)
  IN  [k \in DOMAIN firsts |-> s[firsts[k]]]

\* sorted(indices.items(), key=lambda x: x[1][0]): a stable sort by start.
RECURSIVE SortByStart(_)
SortByStart(s) ==
  IF s = <<>> THEN <<>>
  ELSE LET m == CHOOSE i \in DOMAIN s :
                  /\ \A j \in DOMAIN s : s[i].start <= s[j].start
                  /\ \A j \in 1..(i - 1) : s[j].start # s[i].start
       IN  <<s[m]>> \o SortByStart(SubSeq(s, 1, m - 1) \o SubSeq(s, m + 1, Len(s)))

\* A variant of the removal that moves the entries it keeps to the head of the
\* matrix, one after the other.
RemoveBrokenRebased(idx, zl, mf, zv, sv, ov) ==
  LET kept == SelectSeq(idx, LAMBDA e : e.name \notin (zl \cup mf \cup zv \cup sv \cup ov))
      base(k) == SeqSum([j \in 1..(k - 1) |-> kept[j].end - kept[j].start])
  IN  [k \in DOMAIN kept |->
         [name |-> kept[k].name, start |-> base(k),
          end |-> base(k) + (kept[k].end - kept[k].start)]]

\* A variant of the removal that overlooks the zero-length dictionary.
RemoveBrokenKeepingEmpty(idx, zl, mf, zv, sv, ov) ==
  SelectSeq(idx, LAMBDA e : e.name \notin (mf \cup zv \cup sv \cup ov))

\* A variant of the removal that overlooks the small-variance dictionary.
RemoveBrokenKeepingSmallVar(idx, zl, mf, zv, sv, ov) ==
  SelectSeq(idx, LAMBDA e : e.name \notin (zl \cup mf \cup zv \cup ov))

\* A variant of the removal that overlooks the overflow dictionary.
RemoveBrokenKeepingOverflow(idx, zl, mf, zv, sv, ov) ==
  SelectSeq(idx, LAMBDA e : e.name \notin (zl \cup mf \cup zv \cup sv))

\* new_indices: the entries of indices whose name is in none of the five
\* dictionaries, in the order of indices.
RemoveBroken(idx, zl, mf, zv, sv, ov) ==
  SelectSeq(idx, LAMBDA e : /\ e.name \notin zl
                            /\ e.name \notin mf
                            /\ e.name \notin zv
                            /\ e.name \notin sv
                            /\ e.name \notin ov)

\* The names a set of results flags with the given flag.
Flagged(results, flag) == {r.name : r \in {q \in results : q[flag]}}

\* The whole call: every job's result aggregated, the broken entries removed.
filter_utterances(x, idx) ==
  LET results == {_mpi_func(x, idx[i]) : i \in DOMAIN idx}
  IN  RemoveBroken(idx, Flagged(results, "is_zero_len"),
                        Flagged(results, "is_min_frames"),
                        Flagged(results, "is_zero_var"),
                        Flagged(results, "is_small_var"),
                        Flagged(results, "is_overflow"))

\* ---- the call, step by step ----

\* The jobs are handed to the worker pool.
FDispatch ==
  /\ f_pc = "dispatch"
  /\ f_jobs' = SortByStart(indices)
  /\ f_done' = {}
  /\ zero_len_files' = {} /\ min_frame_files' = {} /\ zero_var_files' = {}
  /\ small_var_files' = {} /\ overflow_files' = {}
  /\ f_pc' = "collect"
  /\ UNCHANGED <<s_vars, v_vars, d_vars, X, indices, f_call, new_indices, f_first>>

\* One result arrives from the pool, in completion order, and the loop body
\* records its flags.
FCollect ==
  /\ f_pc = "collect"
  /\ \E k \in DOMAIN f_jobs \ f_done :
       LET res == _mpi_func(X, f_jobs[k])
           Add(d, flag) == IF flag THEN d \cup {res.name} ELSE d
       IN  /\ f_done' = f_done \cup {k}
           /\ zero_len_files' = Add(zero_len_files, res.is_zero_len)
           /\ min_frame_files' = Add(min_frame_files, res.is_min_frames)
           /\ zero_var_files' = Add(zero_var_files, res.is_zero_var)
           /\ small_var_files' = Add(small_var_files, res.is_small_var)
           /\ overflow_files' = Add(overflow_files, res.is_overflow)
  /\ UNCHANGED <<s_vars, v_vars, d_vars, X, indices, f_pc, f_call, f_jobs, new_indices, f_first>>

\* Every result was consumed: the broken files are removed and the call returns.
FReturn ==
  /\ f_pc = "collect"
  /\ f_done = DOMAIN f_jobs
  /\ new_indices' = RemoveBroken(indices, zero_len_files, min_frame_files,
                                 zero_var_files, small_var_files, overflow_files)
  /\ f_pc' = "returned"
  /\ UNCHANGED <<s_vars, v_vars, d_vars, X, indices, f_call, f_jobs, f_done, flag_vars, f_first>>

\* The returned index is filtered again.
FAgain ==
  /\ f_pc = "returned"
  /\ f_call = 1
  /\ f_first' = new_indices
  /\ indices' = new_indices
  /\ f_call' = 2
  /\ f_pc' = "dispatch"
  /\ UNCHANGED <<s_vars, v_vars, d_vars, X, f_jobs, f_done, flag_vars, new_indices>>

FNext == FDispatch \/ FCollect \/ FReturn \/ FAgain

\* ---- the feature matrices and indices of the model ----

\* Frames whose variance over the features is 0, below 0.01, and above it; a
\* frame whose squared deviations overflow; a frame holding +inf.
ZeroVarFrame == [d \in 1..NFeat |-> 3]
SmallVarFrame == [d \in 1..NFeat |-> IF d = 1 THEN 1 ELSE 0]
HighVarFrame == [d \in 1..NFeat |-> IF d = 1 THEN 9 ELSE 0]
OverflowFrame == [d \in 1..NFeat |-> IF d = 1 THEN 2000 ELSE 0]
InfFrame == [d \in 1..NFeat |-> IF d = 1 THEN FloatMax + 1 ELSE 0]

\* The frames of one utterance: nzero frames of zero variance, nsmall of small
\* variance, one special frame if any, and frames of high variance.
Block(shape) ==
  [t \in 1..shape.len |->
     IF t <= shape.nzero THEN ZeroVarFrame
     ELSE IF t <= shape.nzero + shape.nsmall THEN SmallVarFrame
     ELSE IF t = shape.len /\ shape.special = "overflow" THEN OverflowFrame
     ELSE IF t = shape.len /\ shape.special = "inf" THEN InfFrame
     ELSE HighVarFrame]

Shape(len, nzero, nsmall, special) ==
  [len |-> len, nzero |-> nzero, nsmall |-> nsmall, special |-> special]

LongLen == minimum_amount_of_frames + 1

FilterShapes ==
  { Shape(0, 0, 0, "none"),
    Shape(1, 0, 0, "none"),
    Shape(minimum_amount_of_frames, 0, 0, "none"),
    Shape(LongLen, 0, 0, "none"),
    Shape(LongLen, 1, 0, "none"),
    Shape(LongLen, 0, LongLen \div 6, "none"),
    Shape(LongLen, 0, (LongLen \div 6) + 1, "none"),
    Shape(LongLen, 0, 0, "overflow"),
    Shape(LongLen, 0, 0, "inf") }

\* The matrix holding the utterances of the given shapes one after the other.
Matrix(shapes) == Flatten([k \in DOMAIN shapes |-> Block(shapes[k])])

\* The row at which each of the blocks of the given lengths starts, the first
\* at base.
RECURSIVE Starts(_, _)
Starts(lens, base) ==
  IF lens = <<>> THEN <<>>
  ELSE IF Len(lens) = 1 THEN <<base>>
  ELSE LET h    == Len(lens) \div 2
           left == SubSeq(lens, 1, h)
       IN  Starts(left, base)
             \o Starts(SubSeq(lens, h + 1, Len(lens)), base + SeqSum(left))

\* The index of that matrix: the utterance k is named k and its entry is the
\* (start, end) of its block; the entries are held in the given order.
IndexOf(shapes, order) ==
  LET starts == Starts([j \in DOMAIN shapes |-> shapes[j].len], 0)
  IN  [k \in DOMAIN shapes |->
         [name  |-> order[k],
          start |-> starts[order[k]],
          end   |-> starts[order[k]] + shapes[order[k]].len]]

\* Bound of the model: the number of utterances given to filter_utterances.
MaxUtts == 2

\* The iteration orders of an index of n entries the model tries.
Orders(n) == { [k \in 1..n |-> k], [k \in 1..n |-> n + 1 - k] }

FInit ==
  /\ \E n \in 0..MaxUtts : \E shapes \in [1..n -> FilterShapes] :
       \E order \in Orders(n) :
         /\ X = Matrix(shapes)
         /\ indices = IndexOf(shapes, order)
  /\ f_pc = "dispatch" /\ f_call = 1
  /\ f_jobs = <<>> /\ f_done = {}
  /\ zero_len_files = {} /\ min_frame_files = {} /\ zero_var_files = {}
  /\ small_var_files = {} /\ overflow_files = {}
  /\ new_indices = <<>> /\ f_first = <<>>
  /\ sre_file_list = <<>> /\ in_path_raw = <<>> /\ training_dataset = <<>>
  /\ disk = {} /\ v_pc = "idle" /\ v_out = [outcome |-> "none"]
  /\ ds_indices = <<>> /\ ds_spkid = <<>> /\ ds_dsname = <<>>
  /\ args = <<>> /\ seed = 0 /\ rand = 0 /\ d_pc = "idle" /\ d_run = 0
  /\ d_indices = <<>> /\ all_name = <<>> /\ all_speakers = <<>>
  /\ name2label = <<>> /\ valid_name = <<>> /\ train_name = <<>>
  /\ train_indices = <<>> /\ valid_indices = <<>> /\ d_first = <<>>
  /\ ncpu_arg = 0 /\ cpu_count = 0 /\ NCPU = 0
  /\ script_name = "" /\ which = {} /\ FEATURE_RECIPE = ""
  /\ CURRENT_STATE = "UNKNOWN" /\ s_pc = "idle" /\ s_error = ""
  /\ score_arg = <<>> /\ backend_arg = <<>>
  /\ SCORING_DATASETS = <<>> /\ BACKEND_DATASETS = <<>>
  /\ ALL_NOISE = <<>> /\ noise_progress = <<>> /\ recipes = <<>>

\* ---- inputs of the validation ----

ManifestPath(ds, i) == [dir |-> "", stem |-> ds \o "/" \o ToString(i), ext |-> ".sph"]

ManifestRow(ds, i, a) ==
  [path |-> ManifestPath(ds, i), channel |-> "0", name |-> a[1], spkid |-> a[2],
   start_time |-> "0.0", end_time |-> "9.9"]

\* The manifest with the rows a1 of mx6 and a2 of swb, each row given by its
\* utterance id and its speaker id.
Manifest(a1, a2) ==
  [ds \in ManifestCorpora |->
     IF ds = "mx6" THEN [i \in DOMAIN a1 |-> ManifestRow(ds, i, a1[i])]
                   ELSE [i \in DOMAIN a2 |-> ManifestRow(ds, i, a2[i])]]

RawPathMaps == { [ds \in ks |-> "/data/" \o ds] : ks \in {{"mx6", "swb"}, {"mx6"}} }

TrainingDatasets == { <<"mx6", "swb">>, <<"swb", "fisher">> }

\* The paths the validator can test for these inputs.
CandidatePaths(flist, raw, tds) ==
  {r.path : r \in Range(ScannedRows(FileList(flist, tds), raw))}

VInit ==
  /\ \E n1 \in 0..MaxRows : \E n2 \in 0..(MaxRows - n1) :
       \E a1 \in [1..n1 -> UtteranceIds \X SpeakerIds] :
         \E a2 \in [1..n2 -> UtteranceIds \X SpeakerIds] :
           sre_file_list = Manifest(a1, a2)
  /\ in_path_raw \in RawPathMaps
  /\ training_dataset \in TrainingDatasets
  /\ disk \in SUBSET CandidatePaths(sre_file_list, in_path_raw, training_dataset)
  /\ v_pc = "call"
  /\ v_out = [outcome |-> "none"]
  /\ X = <<>>
  /\ indices = <<>> /\ f_pc = "idle" /\ f_call = 0
  /\ f_jobs = <<>> /\ f_done = {}
  /\ zero_len_files = {} /\ min_frame_files = {} /\ zero_var_files = {}
  /\ small_var_files = {} /\ overflow_files = {}
  /\ new_indices = <<>> /\ f_first = <<>>
  /\ ds_indices = <<>> /\ ds_spkid = <<>> /\ ds_dsname = <<>>
  /\ args = <<>> /\ seed = 0 /\ rand = 0 /\ d_pc = "idle" /\ d_run = 0
  /\ d_indices = <<>> /\ all_name = <<>> /\ all_speakers = <<>>
  /\ name2label = <<>> /\ valid_name = <<>> /\ train_name = <<>>
  /\ train_indices = <<>> /\ valid_indices = <<>> /\ d_first = <<>>
  /\ ncpu_arg = 0 /\ cpu_count = 0 /\ NCPU = 0
  /\ script_name = "" /\ which = {} /\ FEATURE_RECIPE = ""
  /\ CURRENT_STATE = "UNKNOWN" /\ s_pc = "idle" /\ s_error = ""
  /\ score_arg = <<>> /\ backend_arg = <<>>
  /\ SCORING_DATASETS = <<>> /\ BACKEND_DATASETS = <<>>
  /\ ALL_NOISE = <<>> /\ noise_progress = <<>> /\ recipes = <<>>

\* The call of validating_training_data.
Validate ==
  /\ v_pc = "call"
  /\ v_out' = validating_training_data(sre_file_list, in_path_raw,
                                       training_dataset, disk)
  /\ v_pc' = IF v_out'.outcome = "return" THEN "returned" ELSE "raised"
  /\ UNCHANGED <<s_vars, sre_file_list, in_path_raw, training_dataset, disk, X, f_vars, d_vars>>

\* The caller in the EXTRACT_FEATURES state.
CheckFilesFound ==
  /\ v_pc = "returned"
  /\ v_pc' = IF Len(v_out.all_files) = 0 THEN "no_files_error" ELSE "extract"
  /\ UNCHANGED <<s_vars, sre_file_list, in_path_raw, training_dataset, disk, v_out,
                 X, f_vars, d_vars>>

VNext == Validate \/ CheckFilesFound

SpecValidate == VInit /\ [][VNext]_vars

SpecFilter == FInit /\ [][FNext]_vars

\* ------------------------------------------------------------------------
\* prepare_dnn_data: exclusion, down-sampling, filtering, the minimum number
\* of utterances per speaker, the speaker labels and the stratified split
\* ------------------------------------------------------------------------

\* Utterance names and speaker ids are numbered in their sorted() order.

MINIMUM_UTT_PER_SPEAKERS == 8
SUPER_SEED == 52181208

Max(a, b) == IF a >= b THEN a ELSE b
Min(a, b) == IF a <= b THEN a ELSE b

\* sorted(...) of a set of names or of speaker ids.
SetMax(S) == IF S = {} THEN 0 ELSE CHOOSE x \in S : \A y \in S : y <= x

Sorted(S) == SelectSeq([k \in 1..SetMax(S) |-> k], LAMBDA k : k \in S)

\* The keys of a dictionary held as a sequence of entries.
Names(idx) == {idx[i].name : i \in DOMAIN idx}

\* indices[name]
EntryByName(idx, name) == idx[CHOOSE i \in DOMAIN idx : idx[i].name = name]

\* The elements of a sequence in the order of their first occurrence: the keys
\* of a dictionary filled in that order.
FirstOccurrences(s) ==
  LET first == Sorted({i \in DOMAIN s : \A j \in 1..(i - 1) : s[j] # s[i]})
  IN  [k \in DOMAIN first |-> s[first[k]]]

\* ---- np.random.RandomState: a small congruential generator ----

RandomState(sd) == sd % 251
NextRand(r) == (29 * r + 7) % 251

\* rand.shuffle(x): for i in reversed(range(1, n)), swap x[i] with x[j] for a
\* drawn j in 0..i. ShuffleFrom gives the list and the generator's state after
\* the steps hi, hi-1, ..., lo: the first half of the steps is carried out,
\* and then the second half on its result.
RECURSIVE ShuffleFrom(_, _, _, _)
ShuffleFrom(x, hi, lo, r) ==
  IF hi < lo THEN [list |-> x, rand |-> r]
  ELSE IF hi = lo
    THEN LET r1 == NextRand(r)
             j  == r1 % (hi + 1)
         IN  [list |-> [x EXCEPT ![hi + 1] = x[j + 1], ![j + 1] = x[hi + 1]],
              rand |-> r1]
  ELSE LET mid   == (hi + lo) \div 2
           first == ShuffleFrom(x, hi, mid + 1, r)
       IN  IF first.rand \in Nat
             THEN ShuffleFrom(first.list, mid, lo, first.rand)
           ELSE first

shuffle(x, r) == ShuffleFrom(x, Len(x) - 1, 1, r)

\* rand.choice(a=a, size=n): n draws with replacement.
RECURSIVE choice(_, _, _)
choice(a, n, r) ==
  IF n = 0 THEN [list |-> <<>>, rand |-> r]
  ELSE LET r1   == NextRand(r)
           rest == choice(a, n - 1, r1)
       IN  [list |-> <<a[(r1 % Len(a)) + 1]>> \o rest.list, rand |-> rest.rand]

\* ---- exclusion ----

\* The index without the utterances of the excluded corpora (the store of the
\* model holds no augmented utterance, whose name would contain '/').
ExcludeDatasets(idx, dsname, exclude) ==
  IF exclude = {} THEN idx
  ELSE SelectSeq(idx, LAMBDA e : dsname[e.name] \notin exclude)

\* ---- down-sampling ----

\* ---- Python floats: IEEE 754 binary64, held as a sequence of bits ----

\* The number of significant bits of a float.
MantissaBits == 53

\* A float is [bits, scale]: the integer written by bits, most significant
\* first, divided by 2^scale.

\* n bits of the binary expansion of r / n, for r < n, and the remainder left.
RECURSIVE DivBits(_, _, _, _)
DivBits(r, n, cnt, acc) ==
  IF cnt = 0 THEN [bits |-> acc, rem |-> r]
  ELSE LET b    == IF 2 * r >= n THEN 1 ELSE 0
           rest == 2 * r - b * n
           bits == Append(acc, b)
       IN  IF rest \in Nat /\ Len(bits) > 0
             THEN DivBits(rest, n, cnt - 1, bits)
           ELSE [bits |-> bits, rem |-> rest]

\* bits + 1
AddOne(bits) ==
  IF \A i \in DOMAIN bits : bits[i] = 1
    THEN <<1>> \o [i \in DOMAIN bits |-> 0]
  ELSE LET z == SetMax({i \in DOMAIN bits : bits[i] = 0})
       IN  [i \in DOMAIN bits |-> IF i < z THEN bits[i] ELSE IF i = z THEN 1 ELSE 0]

\* The binary digits of a natural number.
RECURSIVE ToBits(_)
ToBits(n) == IF n = 0 THEN <<>> ELSE Append(ToBits(n \div 2), n % 2)

RECURSIVE FromBits(_)
FromBits(bits) ==
  IF bits = <<>> THEN 0
  ELSE 2 * FromBits(SubSeq(bits, 1, Len(bits) - 1)) + bits[Len(bits)]

\* The number of doublings that bring k up to n at least, for 0 < k < n.
RECURSIVE LeadingShift(_, _)
LeadingShift(k, n) == IF 2 * k >= n THEN 1 ELSE 1 + LeadingShift(2 * k, n)

\* The float k / n for 0 < k < n (true division), rounded to nearest, ties
\* to even.
FloatDiv(k, n) ==
  LET p   == LeadingShift(k, n)
      q   == DivBits(k * (2 ^ (p - 1)), n, MantissaBits, <<>>)
      up  == \/ 2 * q.rem > n
             \/ 2 * q.rem = n /\ q.bits[MantissaBits] = 1
  IN  [bits  |-> IF up THEN AddOne(q.bits) ELSE q.bits,
       scale |-> p + MantissaBits - 1]

\* bits * t, exactly.
RECURSIVE MulBits(_, _, _, _, _)
MulBits(bits, i, t, carry, acc) ==
  IF i = 0 THEN ToBits(carry) \o acc
  ELSE LET digit == bits[i] * t + carry
           low   == <<digit % 2>> \o acc
       IN  IF digit \in Nat /\ Len(low) > 0
             THEN MulBits(bits, i - 1, t, digit \div 2, low)
           ELSE low

\* The float x * t for a natural number t, rounded to nearest, ties to even.
FloatMul(x, t) ==
  LET product == MulBits(x.bits, Len(x.bits), t, 0, <<>>)
      first   == IF \E i \in DOMAIN product : product[i] = 1
                   THEN CHOOSE i \in DOMAIN product :
                          /\ product[i] = 1
                          /\ \A j \in 1..(i - 1) : product[j] = 0
                 ELSE Len(product) + 1
      digits  == SubSeq(product, first, Len(product))
      extra   == Len(digits) - MantissaBits
      kept    == SubSeq(digits, 1, MantissaBits)
      up      == /\ digits[MantissaBits + 1] = 1
                 /\ \/ kept[MantissaBits] = 1
                    \/ \E j \in (MantissaBits + 2)..Len(digits) : digits[j] = 1
  IN  IF extra <= 0 THEN [bits |-> digits, scale |-> x.scale]
      ELSE [bits |-> IF up THEN AddOne(kept) ELSE kept, scale |-> x.scale - extra]

\* int(x) for a float x >= 0 below 2^31.
FloatToInt(x) ==
  IF Len(x.bits) <= x.scale THEN 0
  ELSE FromBits(SubSeq(x.bits, 1, Len(x.bits) - x.scale))

\* A variant of the count that rounds the exact quotient up.
NDatasetFilesRoundedUp(n_files, n_total_files, n_sample_files) ==
  (n_files * n_sample_files + n_total_files - 1) \div n_total_files

\* int(dataset2per[dsname] * n_sample_files), with
\* dataset2per[dsname] = len(j) / n_total_files in floats.
NDatasetFiles(n_files, n_total_files, n_sample_files) ==
  IF n_files = 0 THEN 0
  ELSE IF n_files = n_total_files THEN n_sample_files
  ELSE FloatToInt(FloatMul(FloatDiv(n_files, n_total_files), n_sample_files))

\* The loop over dataset2name.items(): each corpus's sorted names shuffled,
\* its first n_dataset_files added to the new index.
RECURSIVE SampleDatasets(_, _, _, _, _, _, _)
SampleDatasets(idx, dsname, names, dss, n_sample_files, r, acc) ==
  IF dss = <<>> THEN [indices |-> acc, rand |-> r]
  ELSE LET flist == SelectSeq(names, LAMBDA n : dsname[n] = Head(dss))
           sh    == shuffle(flist, r)
           n     == NDatasetFiles(Len(flist), Len(idx), n_sample_files)
           taken == SubSeq(sh.list, 1, Min(n, Len(flist)))
       IN  SampleDatasets(idx, dsname, names, Tail(dss), n_sample_files, sh.rand,
                          acc \o [k \in DOMAIN taken |-> EntryByName(idx, taken[k])])

downsample(idx, dsname, n_sample_files, r) ==
  IF ~(n_sample_files > 1000) THEN [indices |-> idx, rand |-> r]
  ELSE LET names == Sorted(Names(idx))
           dss   == FirstOccurrences([k \in DOMAIN names |-> dsname[names[k]]])
       IN  SampleDatasets(idx, dsname, names, dss, n_sample_files, r, <<>>)

\* ---- minimum number of utterances per speaker ----

\* A variant of keep_utt that asks for more than MINIMUM_UTT_PER_SPEAKERS
\* utterances.
KeepUttAbove(idx, spkid) ==
  LET spks == {spkid[n] : n \in Names(idx)}
      len  == [sp \in spks |-> Cardinality({n \in Names(idx) : spkid[n] = sp})]
  IN  {n \in Names(idx) : ~(len[spkid[n]] <= MINIMUM_UTT_PER_SPEAKERS)}

\* keep_utt: the names of the speakers with at least
\* MINIMUM_UTT_PER_SPEAKERS utterances in the index.
KeepUtt(idx, spkid) ==
  LET spks == {spkid[n] : n \in Names(idx)}
      len  == [sp \in spks |-> Cardinality({n \in Names(idx) : spkid[n] = sp})]
  IN  {n \in Names(idx) : ~(len[spkid[n]] < MINIMUM_UTT_PER_SPEAKERS)}

FilterBySpeaker(idx, spkid) ==
  LET keep_utt == KeepUtt(idx, spkid)
  IN  SelectSeq(idx, LAMBDA e : e.name \in keep_utt)

\* ---- names and labels ----

\* A variant of all_name that shuffles the keys in the order the index hands
\* them out, without sorting them.
AllNameUnsorted(idx, r) ==
  LET once == shuffle([k \in DOMAIN idx |-> idx[k].name], r)
  IN  shuffle(once.list, once.rand)

\* all_name = sorted(indices.keys()), shuffled twice.
AllName(idx, r) ==
  LET once == shuffle(Sorted(Names(idx)), r)
  IN  shuffle(once.list, once.rand)

\* all_speakers = sorted(set(name2spk.values()))
AllSpeakers(names, spkid) == Sorted({spkid[names[k]] : k \in DOMAIN names})

\* A variant of the labelling that numbers the speakers of the whole store.
Spk2LabelOfStore(speakers, sp) == sp - 1

\* spk2label: the position of the speaker in all_speakers, from 0.
Spk2Label(speakers, sp) == (CHOOSE i \in DOMAIN speakers : speakers[i] = sp) - 1

Name2Label(names, speakers, spkid) ==
  [n \in Range(names) |-> Spk2Label(speakers, spkid[n])]

\* ---- stratified sampling ----

\* Variants of the number of draws: 0.1 * len rounded to the nearest integer,
\* and three draws for each name of the speaker.
ValidationSizeRounded(len) == Max(1, (len + 5) \div 10)
ValidationSizeThrice(len) == 3 * len

\* n = max(1, int(0.1 * len(name_list)))
ValidationSize(len) == Max(1, len \div 10)

\* The loop over label2name.items(): the clusters in the order of their first
\* name in name2label, each with its names in that order.
RECURSIVE SampleLabels(_, _, _, _, _)
SampleLabels(names, n2l, labels, r, acc) ==
  IF labels = <<>> THEN [valid_name |-> acc, rand |-> r]
  ELSE LET name_list == SelectSeq(names, LAMBDA n : n2l[n] = Head(labels))
       IN  IF Len(name_list) < 3
             THEN SampleLabels(names, n2l, Tail(labels), r, acc)
           ELSE LET drawn == choice(name_list, ValidationSize(Len(name_list)), r)
                IN  SampleLabels(names, n2l, Tail(labels), drawn.rand,
                                 acc \o drawn.list)

StratifiedSample(names, n2l, r) ==
  SampleLabels(names, n2l,
               FirstOccurrences([k \in DOMAIN names |-> n2l[names[k]]]), r, <<>>)

\* A variant of train_name that leaves the drawn names in.
TrainNameAll(names, valid) == names

\* train_name: the names of all_name not drawn.
TrainName(names, valid) == SelectSeq(names, LAMBDA n : n \notin Range(valid))

\* {name: indices[name] for name in names}
SubIndex(idx, names) ==
  LET keys == FirstOccurrences(names)
  IN  [k \in DOMAIN keys |-> EntryByName(idx, keys[k])]

\* ---- the run, step by step ----

DLoad ==
  /\ d_pc = "load"
  /\ d_indices' = ExcludeDatasets(ds_indices, ds_dsname, args.exclude)
  /\ d_pc' = "downsample"
  /\ UNCHANGED <<s_vars, v_vars, X, f_vars, ds_indices, ds_vars, rand, d_run, all_name,
                 all_speakers, name2label, valid_name, train_name,
                 train_indices, valid_indices, d_first>>

DDownsample ==
  /\ d_pc = "downsample"
  /\ LET res == downsample(d_indices, ds_dsname, args.downsample, rand)
     IN  d_indices' = res.indices /\ rand' = res.rand
  /\ d_pc' = "filter"
  /\ UNCHANGED <<s_vars, v_vars, X, f_vars, ds_indices, ds_vars, d_run, all_name,
                 all_speakers, name2label, valid_name, train_name,
                 train_indices, valid_indices, d_first>>

DFilter ==
  /\ d_pc = "filter"
  /\ d_indices' = filter_utterances(X, d_indices)
  /\ d_pc' = "min_utt"
  /\ UNCHANGED <<s_vars, v_vars, X, f_vars, ds_indices, ds_vars, rand, d_run, all_name,
                 all_speakers, name2label, valid_name, train_name,
                 train_indices, valid_indices, d_first>>

DFilterBySpeaker ==
  /\ d_pc = "min_utt"
  /\ d_indices' = FilterBySpeaker(d_indices, ds_spkid)
  /\ d_pc' = "names"
  /\ UNCHANGED <<s_vars, v_vars, X, f_vars, ds_indices, ds_vars, rand, d_run, all_name,
                 all_speakers, name2label, valid_name, train_name,
                 train_indices, valid_indices, d_first>>

DNames ==
  /\ d_pc = "names"
  /\ LET res == AllName(d_indices, rand)
     IN  /\ all_name' = res.list
         /\ rand' = res.rand
         /\ all_speakers' = AllSpeakers(res.list, ds_spkid)
         /\ name2label' = Name2Label(res.list, AllSpeakers(res.list, ds_spkid),
                                     ds_spkid)
  /\ d_pc' = "sample"
  /\ UNCHANGED <<s_vars, v_vars, X, f_vars, ds_indices, ds_vars, d_run, d_indices,
                 valid_name, train_name, train_indices, valid_indices, d_first>>

DSample ==
  /\ d_pc = "sample"
  /\ LET res == StratifiedSample(all_name, name2label, rand)
     IN  /\ valid_name' = res.valid_name
         /\ rand' = res.rand
         /\ train_name' = TrainName(all_name, res.valid_name)
  /\ d_pc' = "split"
  /\ UNCHANGED <<s_vars, v_vars, X, f_vars, ds_indices, ds_vars, d_run, d_indices,
                 all_name, all_speakers, name2label, train_indices,
                 valid_indices, d_first>>

DSplit ==
  /\ d_pc = "split"
  /\ train_indices' = SubIndex(d_indices, train_name)
  /\ valid_indices' = SubIndex(d_indices, valid_name)
  /\ d_pc' = "done"
  /\ UNCHANGED <<s_vars, v_vars, X, f_vars, ds_indices, ds_vars, rand, d_run, d_indices,
                 all_name, all_speakers, name2label, valid_name, train_name,
                 d_first>>

\* The rest of the function: the two feeders are assembled over
\* train_indices and valid_indices; with IS_DEBUGGING the validation set is
\* plotted and the process exits; without it the statement before the return
\* is exit(), so the process ends there as well and the return statement is
\* never executed.
DExit ==
  /\ d_pc = "done"
  /\ \E IS_DEBUGGING \in BOOLEAN :
       d_pc' = IF IS_DEBUGGING THEN "exited_debugging" ELSE "exited"
  /\ UNCHANGED <<s_vars, v_vars, X, f_vars, ds_indices, ds_vars, rand, d_run, d_indices,
                 all_name, all_speakers, name2label, valid_name, train_name,
                 train_indices, valid_indices, d_first>>

\* A second, independent run on the same store with the same seed, once the
\* process of the first has ended: the store may hand out its index in
\* another order.
DRunAgain ==
  /\ d_pc \in {"exited", "exited_debugging"}
  /\ d_run = 1
  /\ d_first' = [train |-> train_indices, valid |-> valid_indices]
  /\ \E order \in Orders(Len(ds_indices)) :
       ds_indices' = [k \in DOMAIN ds_indices |-> ds_indices[order[k]]]
  /\ rand' = RandomState(seed)
  /\ d_run' = 2
  /\ d_pc' = "load"
  /\ d_indices' = <<>> /\ all_name' = <<>> /\ all_speakers' = <<>>
  /\ name2label' = <<>> /\ valid_name' = <<>> /\ train_name' = <<>>
  /\ train_indices' = <<>> /\ valid_indices' = <<>>
  /\ UNCHANGED <<s_vars, v_vars, X, f_vars, ds_vars>>

DNext ==
  \/ DLoad \/ DDownsample \/ DFilter \/ DFilterBySpeaker
  \/ DNames \/ DSample \/ DSplit \/ DExit \/ DRunAgain

\* ---- the feature stores of the model ----

\* Bounds of the model: the largest number of good utterances of a speaker,
\* the largest number of degenerate ones, and the largest seed tried besides
\* SUPER_SEED.
MaxCount == 20
MaxBad == 1
MaxSeed == 7

Seeds == {SUPER_SEED} \cup 0..MaxSeed

GoodShape == Shape(LongLen, 0, 0, "none")
BadShape(j) == IF j % 2 = 1 THEN Shape(0, 0, 0, "none") ELSE Shape(1, 0, 0, "none")

\* A speaker with good utterances that pass the filter and bad ones that do not.
Plan(spk, dataset, good, bad) ==
  [spk |-> spk, dataset |-> dataset, good |-> good, bad |-> bad]

\* The utterances of the planned speakers, one speaker after the other.
Utterances(plans) ==
  Flatten([k \in DOMAIN plans |->
            [j \in 1..(plans[k].good + plans[k].bad) |->
               [spk |-> plans[k].spk, dataset |-> plans[k].dataset,
                shape |-> IF j <= plans[k].good THEN GoodShape
                          ELSE BadShape(j - plans[k].good)]]])

\* Two speakers of two corpora: the first with a count around the minimum or
\* large enough to have two validation draws, the second absent or around
\* the minimum.
StorePlans ==
  { <<Plan(1, "swb", g1, b1), Plan(2, "mx6", g2, 0)>> :
      g1 \in {MINIMUM_UTT_PER_SPEAKERS - 1, MINIMUM_UTT_PER_SPEAKERS,
               MaxCount - 5, MaxCount},
      b1 \in 0..MaxBad,
      g2 \in {0, MINIMUM_UTT_PER_SPEAKERS - 1, MINIMUM_UTT_PER_SPEAKERS} }

ArgChoices ==
  { [exclude |-> ex, downsample |-> n] : ex \in {{}, {"mx6"}}, n \in {0, 1001} }

\* The state at the start of prepare_dnn_data for the store built from plans.
DStart(plans, order, sd, a) ==
  \E utts \in {Utterances(plans)} :
    \E shapes \in {[k \in DOMAIN utts |-> utts[k].shape] \o <<>>} :
      /\ X = Matrix(shapes)
      /\ ds_indices = IndexOf(shapes, order)
      /\ ds_spkid = [k \in DOMAIN utts |-> utts[k].spk]
      /\ ds_dsname = [k \in DOMAIN utts |-> utts[k].dataset]
      /\ args = a
      /\ seed = sd
      /\ rand = RandomState(sd)
      /\ d_pc = "load" /\ d_run = 1
      /\ d_indices = <<>> /\ all_name = <<>> /\ all_speakers = <<>>
      /\ name2label = <<>> /\ valid_name = <<>> /\ train_name = <<>>
      /\ train_indices = <<>> /\ valid_indices = <<>> /\ d_first = <<>>
      /\ ncpu_arg = 0 /\ cpu_count = 0 /\ NCPU = 0
      /\ script_name = "" /\ which = {} /\ FEATURE_RECIPE = ""
      /\ CURRENT_STATE = "UNKNOWN" /\ s_pc = "idle" /\ s_error = ""
      /\ score_arg = <<>> /\ backend_arg = <<>>
      /\ SCORING_DATASETS = <<>> /\ BACKEND_DATASETS = <<>>
      /\ ALL_NOISE = <<>> /\ noise_progress = <<>> /\ recipes = <<>>
      /\ sre_file_list = <<>> /\ in_path_raw = <<>> /\ training_dataset = <<>>
      /\ disk = {} /\ v_pc = "idle" /\ v_out = [outcome |-> "none"]
      /\ indices = <<>> /\ f_pc = "idle" /\ f_call = 0
      /\ f_jobs = <<>> /\ f_done = {}
      /\ zero_len_files = {} /\ min_frame_files = {} /\ zero_var_files = {}
      /\ small_var_files = {} /\ overflow_files = {}
      /\ new_indices = <<>> /\ f_first = <<>>

DInit ==
  \E plans \in StorePlans : \E sd \in Seeds : \E a \in ArgChoices :
    \E order \in Orders(Len(Utterances(plans))) :
      DStart(plans, order, sd, a)

SpecDnn == DInit /\ [][DNext]_vars

\* The positions of a run.
DPositions ==
  {"load", "downsample", "filter", "min_utt", "names", "sample", "split",
   "done", "exited", "exited_debugging"}

\* The run is a sequential program: as long as a statement is left to execute,
\* the interpreter executes it and the position moves on.  Every step of DNext
\* changes d_pc, and a step is possible in every state but the end of the
\* second run, so the condition is weak fairness of DNext, written on d_pc.
SpecDnnFair ==
  /\ DInit
  /\ [][DNext]_vars
  /\ WF_d_pc(/\ ~(d_run = 2 /\ d_pc \in {"exited", "exited_debugging"})
             /\ d_pc' \in DPositions)

\* ------------------------------------------------------------------------
\* Stores larger than the down-sampling target
\* ------------------------------------------------------------------------

\* Bound of the model: the largest number of degenerate utterances of a
\* speaker of a large store.
MaxFiller == 538

\* Two speakers of two corpora with eight good utterances each, and so many
\* degenerate ones that the index exceeds a target of 1001: 1078 entries, of
\* which 546 of swb, and one entry less.
LargeStorePlans ==
  { <<Plan(1, "swb", MINIMUM_UTT_PER_SPEAKERS, f),
      Plan(2, "mx6", MINIMUM_UTT_PER_SPEAKERS, f - 14)>> :
      f \in {MaxFiller - 1, MaxFiller} }

\* The targets on both sides of the threshold of the down-sampling.
LargeStoreArgs == { [exclude |-> {}, downsample |-> n] : n \in {1000, 1001} }

LargeStoreInit ==
  \E plans \in LargeStorePlans : \E sd \in {SUPER_SEED, MaxSeed} :
    \E a \in LargeStoreArgs :
    \E order \in Orders(Len(Utterances(plans))) :
      DStart(plans, order, sd, a)

SpecDownsample == LargeStoreInit /\ [][DNext]_vars

\* ------------------------------------------------------------------------
\* The scenario of three corpora with ten speakers of ten utterances each
\* ------------------------------------------------------------------------

ScenarioCorpora == <<"mx6", "swb", "voxceleb1">>

ScenarioPlans ==
  [k \in 1..(Len(ScenarioCorpora) * 10) |->
     Plan(k, ScenarioCorpora[((k - 1) \div 10) + 1], 10, 0)]

\* No corpus is excluded and the index is not down-sampled.
ScenarioArgs == [exclude |-> {}, downsample |-> 0]

ScenarioInit ==
  \E sd \in Seeds : \E order \in Orders(Len(Utterances(ScenarioPlans))) :
    DStart(ScenarioPlans, order, sd, ScenarioArgs)

SpecScenario == ScenarioInit /\ [][DNext]_vars

\* ------------------------------------------------------------------------
\* Module start-up: the worker count, the system state, the scoring and the
\* noise file lists, the feeder recipes
\* ------------------------------------------------------------------------

\* NCPU = min(18, mpi.cpu_count() - 2) if _args.ncpu <= 0 else int(_args.ncpu)
NcpuOf(arg, cpus) == IF arg <= 0 THEN Min(18, cpus - 2) ELSE arg

\* a in b, for two strings.
IsSubstring(a, b) ==
  \E i \in 1..(Len(b) + 1) : \E j \in (i - 1)..Len(b) : SubSeq(b, i, j) = a

RequiredTools == {"sox", "sph2pipe", "ffmpeg"}

\* The exception the requirement check raises, "" when it returns.
_check_feature_extraction_requirement(tools) ==
  IF RequiredTools \subseteq tools THEN "" ELSE "RuntimeError"

\* The exception the check of the recipe name raises, "" when it returns.
_check_recipe_name_for_extraction(recipe) ==
  IF IsSubstring("_", recipe) THEN "ValueError" ELSE ""

\* The branch on _script_name: the state assigned and the exception raised.
\* The third test is `in ('make_score')`, a membership test in a string.
StateOfScript(name, tools, recipe) ==
  IF name \in {"speech_augmentation", "speech_features_extraction"}
    THEN [state |-> "EXTRACT_FEATURES",
          error |-> IF _check_feature_extraction_requirement(tools) # ""
                      THEN _check_feature_extraction_requirement(tools)
                      ELSE _check_recipe_name_for_extraction(recipe)]
  ELSE IF name \in {"train_xvec", "train_ivec", "train_tvec"}
    THEN [state |-> "TRAINING", error |-> ""]
  ELSE IF IsSubstring(name, "make_score")
    THEN [state |-> "SCORING",
          error |-> _check_feature_extraction_requirement(tools)]
  ELSE [state |-> "UNKNOWN", error |-> "RuntimeError"]

\* One output row of validate_scoring_dataset.
ScoringRow(base_path, dsname, row) ==
  [path    |-> PathJoin(base_path, row.path),
   channel |-> row.channel,
   name    |-> row.name,
   spkid   |-> row.spkid,
   dataset |-> dsname]

\* The loop of validate_scoring_dataset over the names left, all_files
\* holding the datasets built so far.
RECURSIVE ScoringLoop(_, _, _, _, _)
ScoringLoop(flist, raw, dsk, names, all_files) ==
  IF names = <<>> THEN [outcome |-> "return", all_files |-> all_files]
  ELSE LET dsname == Head(names)
       IN  IF dsname \notin DOMAIN flist THEN [outcome |-> "ValueError"]
           ELSE IF dsname \notin DOMAIN raw THEN [outcome |-> "ValueError"]
           ELSE LET ds == [i \in DOMAIN flist[dsname] |->
                             ScoringRow(raw[dsname], dsname, flist[dsname][i])]
                IN  IF \E r \in Range(ds) : r.path \notin dsk
                      THEN [outcome |-> "RuntimeError"]
                    ELSE ScoringLoop(flist, raw, dsk, Tail(names),
                                     (dsname :> ds) @@ all_files)

\* A variant of validate_scoring_dataset that does not test the files.
ValidateScoringUnchecked(flist, raw, dsk, score_dataset) ==
  ScoringLoop(flist, raw,
              UNION { {PathJoin(raw[ds], flist[ds][i].path) :
                         i \in DOMAIN flist[ds]} :
                      ds \in DOMAIN flist \cap DOMAIN raw },
              score_dataset, <<>>)

validate_scoring_dataset(flist, raw, dsk, score_dataset) ==
  ScoringLoop(flist, raw, dsk, score_dataset, <<>>)

\* The relative paths of the noise manifests, in ascending string order.
PathOrder == <<"a", "b", "c">>

\* The key of sorted(val, key=lambda x: x[0]): the rows of one corpus share
\* the root and the extension, so the relative path decides.
PathKey(row) == CHOOSE k \in DOMAIN PathOrder : PathOrder[k] = row.path.stem

\* A variant that keeps the rows in the order of the manifest.
SortedByPathAsListed(rows) == rows

\* sorted() by path: a stable sort.
SortedByPath(rows) ==
  Flatten([k \in DOMAIN PathOrder |->
             SelectSeq(rows, LAMBDA r : PathKey(r) = k)])

\* One output row of validating_noise_data.
NoiseRow(base_path, row) ==
  [path       |-> PathJoin(base_path, row.path),
   channel    |-> row.channel,
   name       |-> row.name,
   noise_type |-> row.noise_type,
   duration   |-> row.duration]

\* The noise corpora the loop scans: those of the manifest with a root.
NoiseScanned(flist, raw) == {"musan", "rirs"} \cap DOMAIN flist \cap DOMAIN raw

\* The rows the loop builds for one corpus, in manifest order.
NoiseRows(flist, raw, ds_name) ==
  [i \in DOMAIN flist[ds_name] |-> NoiseRow(raw[ds_name], flist[ds_name][i])]

RECURSIVE SumOver(_, _)
SumOver(f, keys) ==
  IF keys = {} THEN 0
  ELSE LET k == CHOOSE x \in keys : TRUE IN f[k] + SumOver(f, keys \ {k})

\* The whole function: the returned mapping, the target of the progress bar
\* and the final values of the two counters.
validating_noise_data(flist, raw, dsk) ==
  LET scanned == NoiseScanned(flist, raw)
      listed  == {"musan", "rirs"} \cap DOMAIN flist
      exist   == [ds \in scanned |->
                    SelectSeq(NoiseRows(flist, raw, ds),
                              LAMBDA r : r.path \in dsk)]
      missing == [ds \in scanned |->
                    SelectSeq(NoiseRows(flist, raw, ds),
                              LAMBDA r : r.path \notin dsk)]
  IN  [all_files   |-> [ds \in scanned |-> SortedByPath(exist[ds])],
       n_files     |-> SumOver([ds \in listed |-> Len(flist[ds])], listed),
       n_exist     |-> SumOver([ds \in scanned |-> Len(exist[ds])], scanned),
       n_non_exist |-> SumOver([ds \in scanned |-> Len(missing[ds])], scanned)]

\* prepare_dnn_feeder_recipe: None is a record without a value.
None == [given |-> FALSE]
Some(v) == [given |-> TRUE, value |-> v]

\* A variant that returns the framing transform when one argument is missing.
PrepareRecipeLenient(n2l, n_speakers) ==
  IF n2l.given /\ n_speakers.given
    THEN [outcome |-> "return",
          recipes |-> <<[recipe |-> "Sequencing", data_idx |-> 0],
                        [recipe |-> "Name2Label", ref_idx |-> 0,
                         map |-> n2l.value],
                        [recipe |-> "LabelOneHot", data_idx |-> 1,
                         nb_classes |-> n_speakers.value]>>]
  ELSE [outcome |-> "return",
        recipes |-> <<[recipe |-> "Sequencing", data_idx |-> 0]>>]

prepare_dnn_feeder_recipe(n2l, n_speakers) ==
  IF n2l.given /\ n_speakers.given
    THEN [outcome |-> "return",
          recipes |-> <<[recipe |-> "Sequencing", data_idx |-> 0],
                        [recipe |-> "Name2Label", ref_idx |-> 0,
                         map |-> n2l.value],
                        [recipe |-> "LabelOneHot", data_idx |-> 1,
                         nb_classes |-> n_speakers.value]>>]
  ELSE IF (n2l.given /\ ~n_speakers.given) \/ (~n2l.given /\ n_speakers.given)
    THEN [outcome |-> "RuntimeError"]
  ELSE [outcome |-> "return",
        recipes |-> <<[recipe |-> "Sequencing", data_idx |-> 0]>>]

\* ---- the steps of the start-up ----

\* Line 108.
ComputeNCPU ==
  /\ s_pc = "args"
  /\ NCPU' = NcpuOf(ncpu_arg, cpu_count)
  /\ s_pc' = "script"
  /\ UNCHANGED <<v_vars, X, f_vars, d_vars, ncpu_arg, cpu_count, script_name,
                 which, FEATURE_RECIPE, CURRENT_STATE, s_error, score_arg,
                 backend_arg, SCORING_DATASETS, BACKEND_DATASETS, ALL_NOISE,
                 noise_progress, recipes>>

\* Lines 125-137: the state is assigned before the checks of the branch run.
DetermineState ==
  /\ s_pc = "script"
  /\ \E r \in {StateOfScript(script_name, which, FEATURE_RECIPE)} :
       /\ CURRENT_STATE' = r.state
       /\ s_error' = r.error
       /\ s_pc' = IF r.error # "" THEN "raised"
                  ELSE IF r.state = "TRAINING" THEN "started"
                  ELSE "datasets"
  /\ UNCHANGED <<v_vars, X, f_vars, d_vars, ncpu_arg, cpu_count, NCPU,
                 script_name, which, FEATURE_RECIPE, score_arg, backend_arg,
                 SCORING_DATASETS, BACKEND_DATASETS, ALL_NOISE,
                 noise_progress, recipes>>

\* Lines 242-266: the scoring datasets, then the datasets of the backend.
ValidateScoring ==
  /\ s_pc = "datasets" /\ CURRENT_STATE = "SCORING"
  /\ \E s \in {validate_scoring_dataset(sre_file_list, in_path_raw, disk,
                                        score_arg)} :
       IF s.outcome # "return"
         THEN /\ s_error' = s.outcome /\ s_pc' = "raised"
              /\ UNCHANGED <<SCORING_DATASETS, BACKEND_DATASETS>>
       ELSE \E b \in {validate_scoring_dataset(sre_file_list, in_path_raw,
                                               disk, backend_arg)} :
              /\ SCORING_DATASETS' = s.all_files
              /\ IF b.outcome # "return"
                   THEN /\ s_error' = b.outcome /\ s_pc' = "raised"
                        /\ UNCHANGED BACKEND_DATASETS
                 ELSE IF DOMAIN b.all_files = {}
                   THEN /\ s_error' = "AssertionError" /\ s_pc' = "raised"
                        /\ BACKEND_DATASETS' = b.all_files
                 ELSE /\ s_pc' = "started" /\ BACKEND_DATASETS' = b.all_files
                      /\ UNCHANGED s_error
  /\ UNCHANGED <<v_vars, X, f_vars, d_vars, ncpu_arg, cpu_count, NCPU,
                 script_name, which, FEATURE_RECIPE, CURRENT_STATE, score_arg,
                 backend_arg, ALL_NOISE, noise_progress, recipes>>

\* Lines 314-325.
ValidateNoise ==
  /\ s_pc = "datasets" /\ CURRENT_STATE = "EXTRACT_FEATURES"
  /\ \E n \in {validating_noise_data(sre_file_list, in_path_raw, disk)} :
       /\ ALL_NOISE' = n.all_files
       /\ noise_progress' = [n_files |-> n.n_files, n_exist |-> n.n_exist,
                             n_non_exist |-> n.n_non_exist]
  /\ s_pc' = "started"
  /\ UNCHANGED <<v_vars, X, f_vars, d_vars, ncpu_arg, cpu_count, NCPU,
                 script_name, which, FEATURE_RECIPE, CURRENT_STATE, s_error,
                 score_arg, backend_arg, SCORING_DATASETS, BACKEND_DATASETS,
                 recipes>>

\* The arguments a training script can pass to prepare_dnn_feeder_recipe.
RecipeLabels == {None, Some(<<0, 1>>)}
RecipeSpeakers == {None, Some(2)}

\* A training script asks for the recipes of its feeders.
PrepareRecipe ==
  /\ s_pc = "started" /\ CURRENT_STATE = "TRAINING"
  /\ \E n2l \in RecipeLabels : \E n_speakers \in RecipeSpeakers :
       \E r \in {prepare_dnn_feeder_recipe(n2l, n_speakers)} :
         /\ recipes' = [name2label |-> n2l, n_speakers |-> n_speakers] @@ r
         /\ s_pc' = IF r.outcome = "return" THEN "recipes" ELSE "raised"
         /\ s_error' = IF r.outcome = "return" THEN s_error ELSE r.outcome
  /\ UNCHANGED <<v_vars, X, f_vars, d_vars, ncpu_arg, cpu_count, NCPU,
                 script_name, which, FEATURE_RECIPE, CURRENT_STATE,
                 score_arg, backend_arg, SCORING_DATASETS, BACKEND_DATASETS,
                 ALL_NOISE, noise_progress>>

SNext ==
  \/ ComputeNCPU \/ DetermineState \/ ValidateScoring \/ ValidateNoise
  \/ PrepareRecipe

\* ---- inputs of the start-up ----

\* Bounds of the model: the largest -ncpu argument, the largest machine, and
\* the largest number of rows of a scoring and of a noise corpus.
MaxNcpuArg == 20
MaxCpus == 22
MaxScoreRows == 2
MaxNoiseRows == 2

\* The sequences over S of at most n elements.
SeqsUpTo(S, n) == UNION { [1..k -> S] : k \in 0..n }

ScriptNames ==
  {"speech_augmentation", "speech_features_extraction", "train_xvec",
   "train_ivec", "train_tvec", "make_score", "make_scores", "train_dvec",
   "score", "make", ""}

ToolSets == {RequiredTools, {"sox", "sph2pipe"}, {}}

Recipes == {"mfcc", "mfcc_aug"}

ScoringManifestRow(ds, st) ==
  [path |-> [dir |-> "", stem |-> st, ext |-> ".sph"], channel |-> "0",
   name |-> ds \o "_" \o st, spkid |-> "s1"]

NoiseManifestRow(ds, st) ==
  [path |-> [dir |-> "", stem |-> st, ext |-> ".wav"], channel |-> "0",
   name |-> ds \o "_" \o st, noise_type |-> "noise", duration |-> "1.0"]

\* Manifests of the scoring corpora: sre18dev with any rows, sre18eval
\* listed or not, sre10 for the backend.
ScoringManifests ==
  { [ds \in ks |->
       IF ds = "sre18dev"
         THEN [i \in DOMAIN dev |-> ScoringManifestRow(ds, dev[i])]
         ELSE <<ScoringManifestRow(ds, "a")>>] :
      ks \in {{"sre18dev", "sre18eval", "sre10"}, {"sre18dev", "sre10"}},
      dev \in SeqsUpTo({"a", "b"}, MaxScoreRows) }

\* Manifests of the noise corpora: musan with any rows, rirs listed or not.
NoiseManifests ==
  { [ds \in ks |->
       IF ds = "musan"
         THEN [i \in DOMAIN mus |-> NoiseManifestRow(ds, mus[i])]
         ELSE <<NoiseManifestRow(ds, "b"), NoiseManifestRow(ds, "a")>>] :
      ks \in {{"musan", "rirs"}, {"musan"}},
      mus \in SeqsUpTo(Range(PathOrder), MaxNoiseRows) }

\* PATH_RAW_DATA over the given corpora.
Roots(ks) == [ds \in ks |-> "/data/" \o ds]

\* Every path the start-up can test for a manifest and its roots.
StartupPaths(flist, raw) ==
  UNION { {PathJoin(raw[ds], flist[ds][i].path) : i \in DOMAIN flist[ds]} :
          ds \in DOMAIN flist \cap DOMAIN raw }

\* The state before line 108 for the given arguments, machine and disk.
SStart(arg, cpus, name, tools, recipe, flist, raw, dsk, score, backend) ==
  /\ ncpu_arg = arg /\ cpu_count = cpus /\ NCPU = 0
  /\ script_name = name /\ which = tools /\ FEATURE_RECIPE = recipe
  /\ CURRENT_STATE = "UNKNOWN" /\ s_pc = "args" /\ s_error = ""
  /\ score_arg = score /\ backend_arg = backend
  /\ SCORING_DATASETS = <<>> /\ BACKEND_DATASETS = <<>>
  /\ ALL_NOISE = <<>> /\ noise_progress = <<>> /\ recipes = <<>>
  /\ sre_file_list = flist /\ in_path_raw = raw /\ disk = dsk
  /\ training_dataset = <<>> /\ v_pc = "idle" /\ v_out = [outcome |-> "none"]
  /\ X = <<>>
  /\ indices = <<>> /\ f_pc = "idle" /\ f_call = 0
  /\ f_jobs = <<>> /\ f_done = {}
  /\ zero_len_files = {} /\ min_frame_files = {} /\ zero_var_files = {}
  /\ small_var_files = {} /\ overflow_files = {}
  /\ new_indices = <<>> /\ f_first = <<>>
  /\ ds_indices = <<>> /\ ds_spkid = <<>> /\ ds_dsname = <<>>
  /\ args = <<>> /\ seed = 0 /\ rand = 0 /\ d_pc = "idle" /\ d_run = 0
  /\ d_indices = <<>> /\ all_name = <<>> /\ all_speakers = <<>>
  /\ name2label = <<>> /\ valid_name = <<>> /\ train_name = <<>>
  /\ train_indices = <<>> /\ valid_indices = <<>> /\ d_first = <<>>

\* The inputs of the start-up are independent groups, and each family of
\* initial states varies one of them: the -ncpu argument and the machine,
\* the script with its tools and recipe name, the scoring file lists, the
\* noise file lists.
ArgsInit ==
  \E arg \in -1..MaxNcpuArg : \E cpus \in 1..MaxCpus :
    SStart(arg, cpus, "train_xvec", RequiredTools, "mfcc", <<>>, <<>>, {},
           <<"sre18dev">>, <<"sre10">>)

ScriptInit ==
  \E name \in ScriptNames : \E tools \in ToolSets : \E recipe \in Recipes :
    \E flist \in {[ds \in {"sre18dev", "sre10"} |-> <<>>]} :
      SStart(0, 8, name, tools, recipe, flist, Roots(DOMAIN flist), {},
             <<"sre18dev">>, <<"sre10">>)

ScoringInit ==
  \E name \in {"make_score", "score"} : \E flist \in ScoringManifests :
    \E raw \in {Roots({"sre18dev", "sre18eval", "sre10"}),
                Roots({"sre18dev", "sre10"})} :
      \E dsk \in SUBSET StartupPaths(flist, raw) :
        \E score \in {<<"sre18dev">>, <<"sre18dev", "sre18eval">>,
                      <<"sre18eval", "sre18dev">>} :
          \E backend \in {<<"sre10">>, <<"sre10", "sre18eval">>} :
            SStart(0, 8, name, RequiredTools, "mfcc", flist, raw, dsk,
                   score, backend)

NoiseInit ==
  \E name \in {"speech_augmentation", "speech_features_extraction"} :
    \E flist \in NoiseManifests :
      \E raw \in {Roots({"musan", "rirs"}), Roots({"rirs"})} :
        \E dsk \in SUBSET StartupPaths(flist, raw) :
          SStart(0, 8, name, RequiredTools, "mfcc", flist, raw, dsk,
                 <<"sre18dev">>, <<"sre10">>)

SInit == ArgsInit \/ ScriptInit \/ ScoringInit \/ NoiseInit

SpecStartup == SInit /\ [][SNext]_vars

\* ------------------------------------------------------------------------
\* Properties of validating_training_data
\* ------------------------------------------------------------------------

ValidationEnded == v_pc \in {"returned", "raised", "no_files_error", "extract"}

\* The rows of the requested corpora, as the validator scans them.
SelectedRows ==
  ScannedRows(FileList(sre_file_list, training_dataset), in_path_raw)

\* The (corpus, position) of every row of the manifest.
ManifestPositions ==
  {p \in ManifestCorpora \X (1..MaxRows) : p[2] \in DOMAIN sre_file_list[p[1]]}

UniqueUtteranceIds ==
  \A p, q \in ManifestPositions :
    p # q => sre_file_list[p[1]][p[2]].name # sre_file_list[q[1]][q[2]].name

\* C1: for every manifest whose utterance ids are globally unique and every
\* pattern of present and missing files, the validator returns, with
\* len(valid) + len(invalid) equal to the number of rows of the selected
\* corpora, and raises no duplicate-name or duplicate-speaker error.
C1_ReturnsEveryRowWithoutIntegrityError ==
  (ValidationEnded /\ UniqueUtteranceIds) =>
    /\ v_out.outcome = "return"
    /\ Len(v_out.all_files) + Len(v_out.non_exist_files) = Len(SelectedRows)

\* Two scanned rows with the same utterance id.
DuplicatePairs ==
  {p \in (DOMAIN SelectedRows) \X (DOMAIN SelectedRows) :
     p[1] < p[2] /\ SelectedRows[p[1]].name = SelectedRows[p[2]].name}

\* C2 as stated: whenever two rows of the manifest have the same
\* utterance id, the validator raises the duplicate-identity failure.
C2_AnyDuplicateRaises ==
  (ValidationEnded /\ DuplicatePairs # {}) =>
    v_out.outcome = "assert_duplicated_name"

\* C2, amended: whenever two scanned rows whose files both exist on disk have
\* the same utterance id, in one corpus or in two, the validator raises the
\* duplicate-identity failure instead of returning.
C2_ExistingDuplicateRaises ==
  (ValidationEnded /\ \E p \in DuplicatePairs :
                        /\ SelectedRows[p[1]].path \in disk
                        /\ SelectedRows[p[2]].path \in disk) =>
    v_out.outcome = "assert_duplicated_name"

C2_Witness ==
  /\ v_pc = "raised"
  /\ v_out.outcome = "assert_duplicated_name"
  /\ \E p \in DuplicatePairs :
       /\ SelectedRows[p[1]].dataset # SelectedRows[p[2]].dataset
       /\ SelectedRows[p[1]].path \in disk
       /\ SelectedRows[p[2]].path \in disk
  /\ \E r \in Range(SelectedRows) : r.path \notin disk

\* No scanned row has its file on disk.
NoFileExists == \A r \in Range(SelectedRows) : r.path \notin disk

\* C27: when no manifest row of the selected corpora exists on disk,
\* validating_training_data returns an empty valid set together with the list
\* of every scanned row as non-existing, without raising and whatever names
\* and speakers the manifest repeats; the failure is raised by the caller
\* only, as the error "No files found for feature extraction", and the run
\* does not reach the extraction.
C27_EmptyResultFailsInCaller ==
  /\ (ValidationEnded /\ NoFileExists) =>
       /\ v_out.outcome = "return"
       /\ v_out.all_files = <<>>
       /\ v_out.non_exist_files = SelectedRows
       /\ v_pc \in {"returned", "no_files_error"}
  /\ v_pc = "no_files_error" =>
       /\ v_out.outcome = "return"
       /\ NoFileExists

\* The caller raised for a manifest that repeats an utterance id.
C27_Witness ==
  /\ v_pc = "no_files_error"
  /\ DuplicatePairs # {}
  /\ Len(v_out.non_exist_files) = MaxRows

\* ------------------------------------------------------------------------
\* Properties of filter_utterances
\* ------------------------------------------------------------------------

\* C3: filtering the index a call returned returns that index unchanged.
C3_FilterIdempotent ==
  (f_call = 2 /\ f_pc = "returned") => new_indices = f_first

C3_Witness ==
  /\ f_call = 2 /\ f_pc = "returned"
  /\ Len(f_first) = 1
  /\ Len(X) > f_first[1].end - f_first[1].start

\* C10: an utterance whose index entry has end = start is absent from the
\* index filter_utterances returns, whatever the matrix holds.
C10_ZeroLengthRemoved ==
  f_pc = "returned" =>
    \A e \in Range(indices) : e.end = e.start => e.name \notin Names(new_indices)

C10_Witness ==
  /\ f_pc = "returned" /\ f_call = 1
  /\ \E e \in Range(indices) : e.end = e.start
  /\ new_indices # <<>>
  /\ Len(X) > 0

\* ------------------------------------------------------------------------
\* Properties of the split of prepare_dnn_data
\* ------------------------------------------------------------------------

\* The index the run filters: the store's index without the excluded corpora,
\* down-sampled.
SampledIndex ==
  downsample(ExcludeDatasets(ds_indices, ds_dsname, args.exclude), ds_dsname,
             args.downsample, RandomState(seed)).indices

\* The names of it that carry no flag of the quality filter.
PassedNames ==
  {e.name : e \in {x \in Range(SampledIndex) :
                     LET res == _mpi_func(X, x)
                     IN  ~(res.is_zero_len \/ res.is_min_frames \/ res.is_zero_var
                           \/ res.is_small_var \/ res.is_overflow)}}

\* The number of utterances of a speaker among the given names.
CountOf(names, sp) == Cardinality({n \in names : ds_spkid[n] = sp})

\* Of the names that passed the filter, those of the speakers that have at
\* least MINIMUM_UTT_PER_SPEAKERS of them.
KeptUtterances(passed) ==
  LET spks == {ds_spkid[n] : n \in passed}
      cnt  == [sp \in spks |-> CountOf(passed, sp)]
  IN  {n \in passed : cnt[ds_spkid[n]] >= MINIMUM_UTT_PER_SPEAKERS}

StoreSpeakers == {ds_spkid[n] : n \in DOMAIN ds_spkid}

\* The number of utterances of a speaker in the validation index.
ValidCount(sp) == CountOf(Names(valid_indices), sp)
TrainCount(sp) == CountOf(Names(train_indices), sp)

\* C4: the train index and the validation index are disjoint and their union
\* is the set of kept utterances: those that passed the quality filter and
\* belong to a speaker that met the minimum utterance count.
C4_SplitPartitionsKept ==
  d_pc = "done" =>
    /\ Names(train_indices) \cap Names(valid_indices) = {}
    /\ Names(train_indices) \cup Names(valid_indices) =
         KeptUtterances(PassedNames)

C4_Witness ==
  /\ d_pc = "done"
  /\ valid_indices # <<>> /\ train_indices # <<>>
  /\ LET passed == PassedNames
     IN  KeptUtterances(passed) # passed /\ passed # Names(ds_indices)

\* C5: each speaker with an utterance in the validation index has at least
\* one utterance in the train index.
C5_ValidSpeakerAlsoTrains ==
  d_pc = "done" =>
    \A n \in Names(valid_indices) :
      \E m \in Names(train_indices) : ds_spkid[m] = ds_spkid[n]

C5_Witness ==
  /\ d_pc = "done"
  /\ \E sp \in StoreSpeakers : ValidCount(sp) = 2
  /\ \E sp \in StoreSpeakers :
       ValidCount(sp) = 1 /\ TrainCount(sp) = MINIMUM_UTT_PER_SPEAKERS - 1

\* C6: a speaker is in the vocabulary exactly when it has at least
\* MINIMUM_UTT_PER_SPEAKERS utterances after filtering; every speaker of the
\* train or the validation index is such a speaker, and a speaker with fewer
\* has no utterance in either index.
C6_MinimumUtterancesPerSpeaker ==
  d_pc = "done" =>
    LET passed == PassedNames
    IN  \A sp \in StoreSpeakers :
          /\ sp \in Range(all_speakers) <=>
               CountOf(passed, sp) >= MINIMUM_UTT_PER_SPEAKERS
          /\ CountOf(passed, sp) < MINIMUM_UTT_PER_SPEAKERS =>
               ValidCount(sp) = 0 /\ TrainCount(sp) = 0
          /\ CountOf(passed, sp) >= MINIMUM_UTT_PER_SPEAKERS =>
               TrainCount(sp) > 0

C6_Witness ==
  /\ d_pc = "done"
  /\ LET passed == PassedNames
     IN  /\ \E sp \in StoreSpeakers :
              /\ CountOf(passed, sp) = MINIMUM_UTT_PER_SPEAKERS - 1
              /\ CountOf(Names(ds_indices), sp) >= MINIMUM_UTT_PER_SPEAKERS
              /\ sp \notin Range(all_speakers)
         /\ \E sp \in StoreSpeakers :
              /\ CountOf(passed, sp) = MINIMUM_UTT_PER_SPEAKERS
              /\ sp \in Range(all_speakers)
              /\ ValidCount(sp) + TrainCount(sp) = MINIMUM_UTT_PER_SPEAKERS

\* C7: a second run with the same seed, the same store and the same
\* arguments produces the train and validation indices of the first run.
C7_SameSeedSameSplit ==
  (d_run = 2 /\ d_pc = "done") =>
    /\ train_indices = d_first.train
    /\ valid_indices = d_first.valid

C7_Witness ==
  /\ d_run = 2 /\ d_pc = "done"
  /\ Len(valid_indices) >= 2
  /\ args.downsample > 1000
  /\ ds_indices[1].name # 1

\* round(0.1 * count), rounding a half to the even integer.
RoundTenth(count) ==
  LET q == count \div 10
      r == count % 10
  IN  IF r < 5 THEN q
      ELSE IF r > 5 THEN q + 1
      ELSE IF q % 2 = 0 THEN q ELSE q + 1

\* The number of surviving utterances of a speaker.
SurvivingCount(sp) == CountOf(Range(all_name), sp)

\* C8 as stated: the validation index holds exactly
\* max(1, round(0.1 * count)) utterances of every surviving speaker with at
\* least 3 utterances, and none of a speaker with fewer.
C8_ExactlyRoundedTenth ==
  d_pc = "done" =>
    \A sp \in Range(all_speakers) :
      ValidCount(sp) = IF SurvivingCount(sp) >= 3
                         THEN Max(1, RoundTenth(SurvivingCount(sp)))
                       ELSE 0

\* C8, amended: max(1, floor(0.1 * count)) draws are made with replacement
\* for every surviving speaker with at least 3 utterances, so the validation
\* index holds at least one and at most that many utterances of the speaker;
\* a speaker with fewer than 3 has none.
C8_AtMostFlooredTenth ==
  d_pc = "done" =>
    /\ Len(valid_name) =
         SeqSum([k \in DOMAIN all_speakers |->
                   IF SurvivingCount(all_speakers[k]) >= 3
                     THEN Max(1, SurvivingCount(all_speakers[k]) \div 10)
                   ELSE 0])
    /\ \A sp \in Range(all_speakers) :
         IF SurvivingCount(sp) >= 3
           THEN /\ ValidCount(sp) >= 1
                /\ ValidCount(sp) <= Max(1, SurvivingCount(sp) \div 10)
         ELSE ValidCount(sp) = 0

C8_Witness ==
  /\ d_pc = "done"
  /\ \E sp \in Range(all_speakers) :
       SurvivingCount(sp) >= 20 /\ ValidCount(sp) = 1
  /\ Len(valid_name) > Len(valid_indices)

\* C9: with three corpora of ten speakers with ten non-degenerate utterances
\* each, no exclusion and no down-sampling, all 30 speakers are retained, the
\* validation index holds 30 utterances, one per speaker, and the train index
\* holds 270.
C9_ScenarioCounts ==
  (d_pc = "done" /\ args.exclude = {} /\ args.downsample = 0) =>
    /\ Len(all_speakers) = 30
    /\ Len(valid_indices) = 30
    /\ \A sp \in StoreSpeakers : ValidCount(sp) = 1
    /\ Len(train_indices) = 270

C9_Witness ==
  /\ d_pc = "done" /\ args.exclude = {} /\ args.downsample = 0
  /\ Cardinality(StoreSpeakers) = 30
  /\ Cardinality(Names(ds_indices)) = 300
  /\ Cardinality({ds_dsname[n] : n \in DOMAIN ds_dsname}) = 3
  /\ Cardinality(Names(valid_indices)) = 30

\* ------------------------------------------------------------------------
\* The rules of _mpi_func, one by one
\* ------------------------------------------------------------------------

\* The frames of an index entry.
FramesOf(e) == Slice(X, e.start, e.end)

\* The entries the statistics are computed for, without a warning.
Measured(e) ==
  /\ Len(FramesOf(e)) > minimum_amount_of_frames
  /\ VarWarning(FramesOf(e)) = "none"

\* The number of frames of y whose variance over the features is below 0.01.
LowVarFrames(y) ==
  Cardinality({t \in DOMAIN y :
                 SumSqDev(y[t]) < Len(y[t]) * Len(y[t]) * Len(y[t])})

\* C11 as stated: an utterance longer than the minimum duration is flagged
\* small-var exactly when more than one sixth of its feature dimensions have
\* a variance over the time axis below 0.01.
C11_SmallVarByDimensions ==
  f_pc = "returned" =>
    \A e \in Range(indices) :
      Measured(e) =>
        (e.name \in small_var_files <=> 6 * LowVarDims(FramesOf(e)) > NFeat)

\* C11, amended: an utterance longer than the minimum duration whose variance
\* raises no warning is flagged small-var, and removed, exactly when more than
\* one sixth of its frames have a variance over the feature dimensions below
\* 0.01; an utterance whose variance raises a warning is never flagged
\* small-var.
C11_SmallVarByFrames ==
  f_pc = "returned" =>
    \A e \in Range(indices) :
      /\ Measured(e) =>
           /\ e.name \in small_var_files <=>
                6 * LowVarFrames(FramesOf(e)) > Len(FramesOf(e))
           /\ e.name \in small_var_files => e.name \notin Names(new_indices)
      /\ ~Measured(e) => e.name \notin small_var_files

C11_Witness ==
  /\ f_pc = "returned" /\ f_call = 1
  /\ \E e \in Range(indices) :
       /\ Measured(e)
       /\ 6 * LowVarFrames(FramesOf(e)) > Len(FramesOf(e))
       /\ 6 * (LowVarFrames(FramesOf(e)) - 1) <= Len(FramesOf(e))
       /\ e.name \in small_var_files
  /\ \E e \in Range(indices) :
       /\ Measured(e)
       /\ LowVarFrames(FramesOf(e)) > 0
       /\ 6 * LowVarFrames(FramesOf(e)) <= Len(FramesOf(e))
       /\ e.name \in Names(new_indices)

\* The names recorded in one of the five dictionaries.
FlaggedNames ==
  zero_len_files \cup min_frame_files \cup zero_var_files
    \cup small_var_files \cup overflow_files

\* C12: the index filter_utterances returns holds exactly the entries of the
\* input index that carry none of the five flags, with their (start, end)
\* unchanged and in the input order: every flagged utterance is absent, every
\* unflagged one is present, no name is added, and only names of the input
\* are flagged.
C12_ReturnsExactlyUnflagged ==
  f_pc = "returned" =>
    /\ Range(new_indices) = {e \in Range(indices) : e.name \notin FlaggedNames}
    /\ Len(new_indices) = Cardinality(Names(indices) \ FlaggedNames)
    /\ FlaggedNames \subseteq Names(indices)
    /\ \A i, j \in DOMAIN new_indices :
         i < j => \E k, l \in DOMAIN indices :
                    k < l /\ indices[k] = new_indices[i] /\ indices[l] = new_indices[j]

C12_Witness ==
  /\ f_pc = "returned" /\ f_call = 1
  /\ \E e \in Range(indices) :
       e.name \in small_var_files /\ e.name \notin Names(new_indices)
  /\ \E e \in Range(indices) :
       e.name \notin FlaggedNames /\ e \in Range(new_indices)

\* ------------------------------------------------------------------------
\* Configuration of the requested corpora
\* ------------------------------------------------------------------------

\* The requested corpora the manifest does not know, and those without a
\* raw-data root.
UnknownCorpora == Range(training_dataset) \ DOMAIN sre_file_list
RootlessCorpora == Range(training_dataset) \ DOMAIN in_path_raw

\* C13: when a requested training corpus is unknown to the manifest or has no
\* entry in the raw-data-root mapping, the run ends with a fatal error, raised
\* by validating_training_data or at the latest by its caller: it never goes
\* on to feature extraction with the rows the validator returned.
C13_MisconfiguredCorpusIsFatal ==
  (UnknownCorpora \cup RootlessCorpora) # {} => v_pc # "extract"

\* ------------------------------------------------------------------------
\* The end of prepare_dnn_data
\* ------------------------------------------------------------------------

\* C14: every invocation of prepare_dnn_data eventually returns the feeders
\* and the speaker vocabulary to its caller, unless it is run with debugging
\* enabled.
C14_EventuallyReturns ==
  [](d_pc = "load" => <>(d_pc \in {"returned", "exited_debugging"}))

\* ------------------------------------------------------------------------
\* The speaker vocabulary
\* ------------------------------------------------------------------------

\* The speakers that survive the quality filter and the minimum utterance
\* count.
SurvivingSpeakers == {ds_spkid[n] : n \in KeptUtterances(PassedNames)}

\* C15: the speaker vocabulary lists the surviving speakers once each in
\* ascending order, the label of a speaker is its rank in that order (so the
\* labels are a bijection onto 0..n-1), only utterances of surviving speakers
\* have a label, and every utterance of the train or validation index has the
\* label of its own speaker.
C15_DenseSortedLabels ==
  d_pc = "done" =>
    LET surviving == SurvivingSpeakers
    IN  /\ Range(all_speakers) = surviving
        /\ \A i, j \in DOMAIN all_speakers :
             i < j => all_speakers[i] < all_speakers[j]
        /\ \A n \in DOMAIN name2label : ds_spkid[n] \in surviving
        /\ {name2label[n] : n \in DOMAIN name2label} =
             0..(Cardinality(surviving) - 1)
        /\ \A n \in Names(train_indices) \cup Names(valid_indices) :
             /\ n \in DOMAIN name2label
             /\ name2label[n] =
                  Cardinality({sp \in surviving : sp < ds_spkid[n]})

C15_Witness ==
  /\ d_pc = "done"
  /\ valid_indices # <<>>
  /\ LET surviving == SurvivingSpeakers
     IN  \E dropped \in StoreSpeakers \ surviving :
           \E sp \in surviving : dropped < sp

\* ------------------------------------------------------------------------
\* Down-sampling
\* ------------------------------------------------------------------------

\* The index the down-sampling starts from.
FullIndex == ExcludeDatasets(ds_indices, ds_dsname, args.exclude)

\* The number of entries of an index that belong to a corpus.
CorpusCount(idx, ds) ==
  Cardinality({i \in DOMAIN idx : ds_dsname[idx[i].name] = ds})

StoreCorpora == {ds_dsname[n] : n \in DOMAIN ds_dsname}

\* C16 as stated: with a target above 1000 every corpus contributes
\* floor(share * target) utterances, or all it has if it has fewer, the
\* sub-sample is a subset of the index without repetition and not larger
\* than the target; with a target of 1000 or less the index is unchanged.
C16_ContributesFloorOfShare ==
  d_pc = "filter" =>
    LET full == FullIndex
    IN  IF args.downsample > 1000
          THEN /\ Range(d_indices) \subseteq Range(full)
               /\ Cardinality(Names(d_indices)) = Len(d_indices)
               /\ Len(d_indices) <= args.downsample
               /\ \A ds \in StoreCorpora :
                    LET k == CorpusCount(full, ds)
                    IN  CorpusCount(d_indices, ds) =
                          Min(k, (k * args.downsample) \div Len(full))
        ELSE d_indices = full

\* C16, amended: as above, except that a corpus whose exact quota
\* share * target is a whole number contributes that number or one less, the
\* float product being rounded before it is truncated.
C16_ContributesTruncatedFloatShare ==
  d_pc = "filter" =>
    LET full == FullIndex
    IN  IF args.downsample > 1000
          THEN /\ Range(d_indices) \subseteq Range(full)
               /\ Cardinality(Names(d_indices)) = Len(d_indices)
               /\ Len(d_indices) <= args.downsample
               /\ \A ds \in StoreCorpora :
                    LET k == CorpusCount(full, ds)
                        c == CorpusCount(d_indices, ds)
                        quota == (k * args.downsample) \div Len(full)
                    IN  \/ c = Min(k, quota)
                        \/ /\ (k * args.downsample) % Len(full) = 0
                           /\ c = Min(k, quota - 1)
        ELSE d_indices = full

C16_Witness ==
  /\ d_pc = "filter"
  /\ args.downsample > 1000
  /\ LET full == FullIndex
     IN  /\ Len(full) > args.downsample
         /\ \E ds \in StoreCorpora :
              LET k == CorpusCount(full, ds)
              IN  /\ (k * args.downsample) % Len(full) # 0
                  /\ CorpusCount(d_indices, ds) =
                       (k * args.downsample) \div Len(full)
                  /\ CorpusCount(d_indices, ds) < k

\* ------------------------------------------------------------------------
\* Overflow in the variance
\* ------------------------------------------------------------------------

\* The entries whose variance is computed and overflows.
Overflows(e) ==
  /\ Len(FramesOf(e)) > minimum_amount_of_frames
  /\ VarWarning(FramesOf(e)) = "overflow encountered"

\* Whether an entry, taken alone, carries one of the five flags.
CarriesFlag(e) ==
  LET res == _mpi_func(X, e)
  IN  \/ res.is_zero_len \/ res.is_min_frames \/ res.is_zero_var
      \/ res.is_small_var \/ res.is_overflow

\* C17: an utterance whose variance computation overflows is recorded in the
\* overflow dictionary and is absent from the returned index; the call still
\* consumes the result of every job, and every other utterance of the call
\* is in the returned index exactly when it carries no flag of its own.
C17_OverflowFlaggedScanContinues ==
  f_pc = "returned" =>
    \A e \in Range(indices) :
      Overflows(e) =>
        /\ e.name \in overflow_files
        /\ e.name \notin Names(new_indices)
        /\ Len(f_jobs) = Len(indices) /\ f_done = DOMAIN f_jobs
        /\ \A o \in Range(indices) \ {e} :
             o \in Range(new_indices) <=> ~CarriesFlag(o)

C17_Witness ==
  /\ f_pc = "returned" /\ f_call = 1
  /\ \E e, o \in Range(indices) :
       /\ Overflows(e)
       /\ e.name \in overflow_files
       /\ o # e /\ ~CarriesFlag(o)
       /\ o \in Range(new_indices)

\* ------------------------------------------------------------------------
\* The minimum duration
\* ------------------------------------------------------------------------

\* C18: an utterance of 1 to MINIMUM_UTT_DURATION / STEP_LENGTH frames, that
\* number included, is recorded in the min-frames dictionary and is absent
\* from the returned index; an utterance of one frame more, or of no frame, is
\* not recorded in it.
C18_AtMostMinimumFramesRemoved ==
  f_pc = "returned" =>
    \A e \in Range(indices) :
      LET frames == e.end - e.start
          limit  == MINIMUM_UTT_DURATION \div STEP_LENGTH
      IN  /\ (0 < frames /\ frames <= limit) =>
               /\ e.name \in min_frame_files
               /\ e.name \notin Names(new_indices)
          /\ (frames = 0 \/ frames > limit) => e.name \notin min_frame_files

C18_Witness ==
  /\ f_pc = "returned" /\ f_call = 1
  /\ \E e, o \in Range(indices) :
       /\ e.end - e.start = MINIMUM_UTT_DURATION \div STEP_LENGTH
       /\ e.name \in min_frame_files
       /\ o.end - o.start = (MINIMUM_UTT_DURATION \div STEP_LENGTH) + 1
       /\ o \in Range(new_indices)

\* ------------------------------------------------------------------------
\* The valid rows of validating_training_data
\* ------------------------------------------------------------------------

\* C19: when validating_training_data returns a non-empty valid set, the
\* utterance ids of the valid rows are pairwise distinct, every valid row
\* comes from a manifest row of its corpus and carries that row's speaker id
\* prefixed with the corpus name and '_', and no speaker id occurs in valid
\* rows of two corpora.
C19_ValidRowsDistinctAndPrefixed ==
  (v_out.outcome = "return" /\ Len(v_out.all_files) > 0) =>
    LET valid == v_out.all_files
    IN  /\ \A i, j \in DOMAIN valid : i # j => valid[i].name # valid[j].name
        /\ \A r \in Range(valid) :
             /\ r.dataset \in Range(training_dataset) \cap DOMAIN sre_file_list
             /\ \E m \in Range(sre_file_list[r.dataset]) :
                  /\ m.name = r.name
                  /\ r.spkid = r.dataset \o "_" \o m.spkid
        /\ \A r, q \in Range(valid) :
             r.dataset # q.dataset => r.spkid # q.spkid

C19_Witness ==
  /\ v_pc = "returned"
  /\ \E i, j \in DOMAIN v_out.all_files :
       /\ v_out.all_files[i].dataset # v_out.all_files[j].dataset
       /\ \E m \in Range(sre_file_list[v_out.all_files[i].dataset]) :
            \E n \in Range(sre_file_list[v_out.all_files[j].dataset]) :
              /\ m.name = v_out.all_files[i].name
              /\ n.name = v_out.all_files[j].name
              /\ m.spkid = n.spkid

\* ------------------------------------------------------------------------
\* The order of the quality filter and the down-sampling
\* ------------------------------------------------------------------------

\* C20: the quality filter runs before the down-sampling, so the index a
\* down-sampling to a target above 1000 draws from holds only utterances that
\* carry no flag of the filter, and so does the index it produces, which the
\* filter is yet to scan.
C20_DownsampleDrawsFromFiltered ==
  (args.downsample > 1000 /\ d_pc \in {"downsample", "filter"}) =>
    \A e \in Range(d_indices) : ~CarriesFlag(e)

\* ------------------------------------------------------------------------
\* The order in which the pool delivers the results
\* ------------------------------------------------------------------------

\* The names of the given jobs whose own result carries the flag.
NamesWithFlag(jobs, flag) ==
  {f_jobs[k].name : k \in {j \in jobs : _mpi_func(X, f_jobs[j])[flag]}}

\* C21: whatever the order in which the results arrive, the five
\* dictionaries hold exactly the flagged names of the results consumed so
\* far; when the call returns, one result was consumed for each entry of the
\* input index and the returned index is the input without the names flagged
\* by their own result, so the outcome depends on the input alone.
C21_AggregationOrderIndependent ==
  /\ f_pc \in {"collect", "returned"} =>
       /\ zero_len_files = NamesWithFlag(f_done, "is_zero_len")
       /\ min_frame_files = NamesWithFlag(f_done, "is_min_frames")
       /\ zero_var_files = NamesWithFlag(f_done, "is_zero_var")
       /\ small_var_files = NamesWithFlag(f_done, "is_small_var")
       /\ overflow_files = NamesWithFlag(f_done, "is_overflow")
  /\ f_pc = "returned" =>
       /\ Cardinality(f_done) = Len(indices)
       /\ {f_jobs[k].name : k \in f_done} = Names(indices)
       /\ new_indices =
            SelectSeq(indices,
                      LAMBDA e : \A flag \in {"is_zero_len", "is_min_frames",
                                              "is_zero_var", "is_small_var",
                                              "is_overflow"} :
                                   ~_mpi_func(X, e)[flag])

\* The result of the last job arrived before that of the first.
C21_Witness ==
  /\ f_pc = "collect" /\ f_call = 1
  /\ Len(f_jobs) = 2 /\ f_done = {2}
  /\ f_jobs[2].name \in small_var_files
  /\ _mpi_func(X, f_jobs[1]).is_min_frames

\* ------------------------------------------------------------------------
\* What filter_utterances leaves alone
\* ------------------------------------------------------------------------

\* A step of a call leaves the matrix and the input index as they are, and a
\* step that returns yields only entries of the input index.
StepKeepsMatrixAndIndex ==
  f_pc \in {"dispatch", "collect"} =>
    /\ X' = X
    /\ indices' = indices
    /\ f_pc' = "returned" =>
         \A e \in Range(new_indices') :
           \E i \in Range(indices) :
             i.name = e.name /\ i.start = e.start /\ i.end = e.end

\* C22: no step of a call of filter_utterances changes the feature matrix or
\* the input index, and the step that returns yields only entries of the
\* input index, each with the (start, end) it had there.
C22_MatrixAndIndexUntouched == [][StepKeepsMatrixAndIndex]_vars

C22_Witness ==
  /\ f_pc = "returned" /\ f_call = 1
  /\ Len(new_indices) = 1 /\ Len(indices) = 2
  /\ new_indices[1].start > 0
  /\ new_indices[1].end = Len(X)


\* ------------------------------------------------------------------------
\* Warnings other than overflow
\* ------------------------------------------------------------------------

\* The entries whose variance computation raises a warning of any kind.
Warns(e) ==
  /\ Len(FramesOf(e)) > minimum_amount_of_frames
  /\ VarWarning(FramesOf(e)) # "none"

\* C28: every utterance longer than the minimum duration whose variance
\* computation raises a numerical warning, overflow or any other, is absent
\* from the index filter_utterances returns.
C28_WarnedUtteranceRemoved ==
  f_pc = "returned" =>
    \A e \in Range(indices) : Warns(e) => e.name \notin Names(new_indices)

\* ------------------------------------------------------------------------
\* Properties of the module start-up
\* ------------------------------------------------------------------------

\* C23: for every -ncpu argument and every CPU count, the worker count NCPU
\* is at most 18, at most the number of CPUs minus the headroom of 2, and at
\* least 1.
C23_WorkerCountBounded ==
  s_pc \notin {"idle", "args"} =>
    /\ NCPU <= 18
    /\ NCPU <= cpu_count - 2
    /\ NCPU >= 1


\* The dataset names the scoring state validates, in the order it does.
Requested == score_arg \o backend_arg

\* What is wrong with a requested dataset, as the exception it deserves.
Problem(ds) ==
  IF ds \notin DOMAIN sre_file_list \/ ds \notin DOMAIN in_path_raw
    THEN "ValueError"
  ELSE IF \E i \in DOMAIN sre_file_list[ds] :
            PathJoin(in_path_raw[ds], sre_file_list[ds][i].path) \notin disk
    THEN "RuntimeError"
  ELSE ""

\* The problem of the first requested dataset that has one.
FirstProblem ==
  LET bad == {k \in DOMAIN Requested : Problem(Requested[k]) # ""}
  IN  IF bad = {} THEN ""
      ELSE Problem(Requested[CHOOSE k \in bad : \A j \in bad : k <= j])

\* The datasets map every requested name to one row per manifest row, in
\* manifest order, with the joined path, which exists.
MirrorsManifest(datasets, names) ==
  /\ DOMAIN datasets = Range(names)
  /\ \A ds \in DOMAIN datasets :
       /\ Len(datasets[ds]) = Len(sre_file_list[ds])
       /\ \A i \in DOMAIN datasets[ds] :
            /\ datasets[ds][i].path =
                 PathJoin(in_path_raw[ds], sre_file_list[ds][i].path)
            /\ datasets[ds][i].name = sre_file_list[ds][i].name
            /\ datasets[ds][i].dataset = ds
            /\ datasets[ds][i].path \in disk

\* The scoring state is past the validation of its datasets.
ScoringValidated ==
  /\ CURRENT_STATE = "SCORING" /\ RequiredTools \subseteq which
  /\ s_pc \in {"started", "raised"}

\* C24: validate_scoring_dataset is all-or-nothing.  A requested dataset that
\* is not in the manifest or has no raw-data root raises ValueError and a
\* manifest row of a requested dataset whose file is missing raises
\* RuntimeError, the first problem in request order deciding which; without a
\* problem the call returns, and every requested dataset maps to one output
\* row per manifest row, in manifest order, all with existing paths.
C24_ScoringAllOrNothing ==
  ScoringValidated =>
    /\ s_pc = "raised" <=> FirstProblem # ""
    /\ s_pc = "raised" => s_error = FirstProblem
    /\ s_pc = "started" =>
         /\ MirrorsManifest(SCORING_DATASETS, score_arg)
         /\ MirrorsManifest(BACKEND_DATASETS, backend_arg)

\* Both scoring datasets are returned, one of them with two rows in an order
\* that is not the order of their paths.
C24_Witness ==
  /\ ScoringValidated /\ s_pc = "started"
  /\ DOMAIN SCORING_DATASETS = {"sre18dev", "sre18eval"}
  /\ Len(SCORING_DATASETS["sre18dev"]) = 2
  /\ SCORING_DATASETS["sre18dev"][1].path.stem = "b"
  /\ SCORING_DATASETS["sre18dev"][2].path.stem = "a"


\* The rows of a scanned noise corpus whose file exists, as the manifest
\* lists them.
ExistingNoise(ds) ==
  SelectSeq([i \in DOMAIN sre_file_list[ds] |->
               [sre_file_list[ds][i] EXCEPT
                  !.path = PathJoin(in_path_raw[ds], @)]],
            LAMBDA r : r.path \in disk)

\* s is t in another order.
IsPermutation(s, t) ==
  /\ Len(s) = Len(t)
  /\ \A r \in Range(s) \cup Range(t) :
       Cardinality({i \in DOMAIN s : s[i] = r})
         = Cardinality({i \in DOMAIN t : t[i] = r})

\* The position of a relative path in ascending string order.
StemRank(st) ==
  LET ascending == <<"a", "b", "c">>
  IN  CHOOSE k \in DOMAIN ascending : ascending[k] = st

\* The number of rows of the noise corpora that are scanned.
RowsScanned ==
  LET scanned == {"musan", "rirs"} \cap DOMAIN sre_file_list
                   \cap DOMAIN in_path_raw
  IN  Cardinality(UNION { {<<ds, i>> : i \in DOMAIN sre_file_list[ds]} :
                          ds \in scanned })

\* The extraction state is past the validation of the noise corpora.
NoiseValidated ==
  /\ CURRENT_STATE = "EXTRACT_FEATURES" /\ s_pc = "started"

\* C25: for each of musan and rirs that is in the manifest and in the
\* raw-path mapping, validating_noise_data returns exactly the rows whose
\* file exists, in ascending order of path, and no other corpus; a missing
\* file is only counted: the run does not raise, and the two counters add up
\* to the number of rows scanned.
C25_NoiseRowsExistingAndSorted ==
  /\ (CURRENT_STATE = "EXTRACT_FEATURES" /\ s_pc = "raised") =>
       ALL_NOISE = <<>>
  /\ NoiseValidated =>
       /\ DOMAIN ALL_NOISE = {"musan", "rirs"} \cap DOMAIN sre_file_list
                               \cap DOMAIN in_path_raw
       /\ \A ds \in DOMAIN ALL_NOISE :
            /\ IsPermutation(ALL_NOISE[ds], ExistingNoise(ds))
            /\ \A i, j \in DOMAIN ALL_NOISE[ds] :
                 i < j => StemRank(ALL_NOISE[ds][i].path.stem)
                            <= StemRank(ALL_NOISE[ds][j].path.stem)
       /\ noise_progress.n_exist + noise_progress.n_non_exist = RowsScanned

\* musan is returned with its two existing rows, listed in descending order
\* of path, while a file of rirs is missing.
C25_Witness ==
  /\ NoiseValidated
  /\ DOMAIN ALL_NOISE = {"musan", "rirs"}
  /\ Len(sre_file_list["musan"]) = 2
  /\ sre_file_list["musan"][1].path.stem = "c"
  /\ sre_file_list["musan"][2].path.stem = "a"
  /\ Len(ALL_NOISE["musan"]) = 2
  /\ Len(ALL_NOISE["rirs"]) = 1
  /\ noise_progress.n_non_exist = 1


\* A training script has called prepare_dnn_feeder_recipe.
RecipePrepared ==
  /\ CURRENT_STATE = "TRAINING" /\ s_pc \in {"recipes", "raised"}

\* C26: prepare_dnn_feeder_recipe returns the framing transform followed by
\* the name-to-label and the one-hot transforms when both name2label and
\* n_speakers are given, only the framing transform when both are None, and
\* raises RuntimeError when exactly one of the two is given.
C26_LabelsAttachedWhenBothGiven ==
  RecipePrepared =>
    LET n2l == recipes.name2label
        n   == recipes.n_speakers
    IN  /\ (n2l.given /\ n.given) =>
             /\ s_pc = "recipes" /\ recipes.outcome = "return"
             /\ Len(recipes.recipes) = 3
             /\ recipes.recipes[1].recipe = "Sequencing"
             /\ recipes.recipes[2].recipe = "Name2Label"
             /\ recipes.recipes[2].map = n2l.value
             /\ recipes.recipes[3].recipe = "LabelOneHot"
             /\ recipes.recipes[3].nb_classes = n.value
        /\ (~n2l.given /\ ~n.given) =>
             /\ s_pc = "recipes" /\ recipes.outcome = "return"
             /\ Len(recipes.recipes) = 1
             /\ recipes.recipes[1].recipe = "Sequencing"
        /\ (n2l.given # n.given) =>
             /\ s_pc = "raised" /\ s_error = "RuntimeError"
             /\ recipes.outcome = "RuntimeError"

\* The call with a name-to-label mapping and without a number of speakers.
C26_Witness ==
  /\ RecipePrepared
  /\ recipes.name2label.given /\ ~recipes.n_speakers.given
  /\ s_pc = "raised"


\* The start-up ran to its end without an exception.
StartupPassed == s_pc \in {"datasets", "started", "recipes"}

\* C29: once start-up has passed, the script is one of the six known names
\* and CURRENT_STATE is the state of that name: EXTRACT_FEATURES for
\* speech_augmentation and speech_features_extraction, TRAINING for
\* train_xvec, train_ivec and train_tvec, SCORING for make_score only; it is
\* never UNKNOWN.
C29_StateOfKnownScriptOnly ==
  StartupPassed =>
    /\ CURRENT_STATE # "UNKNOWN"
    /\ CURRENT_STATE = "EXTRACT_FEATURES" <=>
         script_name \in {"speech_augmentation", "speech_features_extraction"}
    /\ CURRENT_STATE = "TRAINING" <=>
         script_name \in {"train_xvec", "train_ivec", "train_tvec"}
    /\ CURRENT_STATE = "SCORING" <=> script_name = "make_score"

====
